---- MODULE Spec2Model ----
(***************************************************************************)
(* The animation scheduling engine of FlexTermEditor: animations.py        *)
(* (AnimationState, FadeAnimation, BlinkAnimation, AnimationManager),      *)
(* pop_animation.py (PopOutAnimation) and micro_animations.py (the         *)
(* recipes).                                                               *)
(*                                                                         *)
(* Every threading.Timer is a thread of its own, so the model has one      *)
(* caller thread and a pool of timer threads.  Each thread moves one       *)
(* source statement at a time: a step of the model is one read or write of *)
(* a shared attribute (animating, current_step, timer, the target's        *)
(* property).  `self.current_step += 1` is a load and a store.             *)
(* Property values are exact fractions [num, den].                         *)
(***************************************************************************)
EXTENDS Integers, Sequences, FiniteSets, TLC

\* ------------------------------------------------------------------ bounds
\* start() calls (of an instance, a registry key, a recipe or a composite) the
\* caller may make in one behaviour
MaxStarts == 2
\* max_steps given to the instances whose ticks are interleaved
RaceSteps == 3
\* blink_count of the BlinkAnimation instance ranges over 1..MaxBlink
MaxBlink == 3
\* calls of the manager (or of stop()) the caller may make in one behaviour
MaxOps == 3

\* ------------------------------------------------------- program constants
DefaultMaxSteps == 10
DefaultBlinkCount == 3

\* ------------------------------------------------------------ the universe
\* self.timer = None
None == 0
\* a handle to a Timer that has been started and has fired or was cancelled:
\* cancel() on it does nothing, start() and the daemon setter raise
Dead == 0 - 1
\* the thread that calls start(), stop() and the manager
Caller == 0
MaxTimers == 4 * MaxStarts
Slots == 1 .. MaxTimers
Threads == {Caller} \cup Slots

\* animation instances
Inst == {"a", "A", "B", "fade", "blink", "tog1", "tog2", "pfade", "pscale",
         "ifade", "iscale", "slide", "nav", "res", "cur", "cblink",
         "wrap", "ptog", "fin", "fout"}
NoInst == "none"
\* target objects
Targets == {"obj", "obj1", "obj2", "popup", "tooltip", "panel", "result", "other",
            "cursor", "toggle_state", "editor"}
\* the threads that run a recipe of MicroAnimations concurrently
Mutators == {1, 2}

VARIABLES
    animating,      \* [Inst -> BOOLEAN]   self.animating
    current_step,   \* [Inst -> Nat]       self.current_step
    max_steps,      \* [Inst -> Nat]       self.max_steps
    timer,          \* [Inst -> handle]    self.timer: None, Dead or the slot of a Timer
    start_value,    \* [Inst -> Int]       self.start_value of a FadeAnimation
    end_value,      \* [Inst -> Int]       self.end_value of a FadeAnimation
    on_complete,    \* [Inst -> STRING]    the function bound to self.on_complete
    pc,             \* [Threads -> STRING] the statement each thread stands at
    self,           \* [Threads -> Inst]   the instance the thread's frame is bound to
    tmp,            \* [Threads -> Nat]    the value `+= 1` has loaded
    value,          \* [<<target, property>> -> fraction]: the targets' attributes
    animations,     \* AnimationManager.animations: [registered keys -> entry]
    pop,            \* PopOutAnimation: [fade_animation, scale_animation]
    starts,         \* start() calls made so far (capped by MaxStarts)
    quiesced,       \* [Inst -> BOOLEAN] stop() has returned, start() not called since
    restarted,      \* [Inst -> STRING] "yes": the last start() found the instance
                    \* animating at a step > 0 and has reset it ("resetting" before)
    frames,         \* [Inst -> Nat] on_frame calls since current_step was last reset
    cb_calls,       \* calls of PopOut's caller-supplied on_complete since PopOut.start()
    popin,          \* PopInAnimation: [fade_animation, scale_animation, start_scale]
    mpc,            \* [Mutators -> STRING] the statement each recipe thread stands at
    ops,            \* calls of the manager or of stop() made so far (capped by MaxOps)
    op,             \* the last such call: [name, key]
    ret,            \* what the last call returned: "none", "True" or "False"
    exc,            \* the exception the last call raised to its caller, or "none"
    escaped,        \* the instances a tick of which ended by an exception leaving _advance
    completions,    \* [Inst -> Nat] on_complete calls since current_step was last reset
    dirty           \* the targets written since the redraw callback was last invoked for them

vars == <<animating, current_step, max_steps, timer, start_value, end_value,
          on_complete, pc, self, tmp, value, animations, pop,
          starts, quiesced, restarted, frames, cb_calls,
          popin, mpc, ops, op, ret, exc, escaped, completions, dirty>>

\* the state of PopInAnimation, of the recipe threads and of the caller's last call
ext == <<popin, mpc, ops, op, ret, exc, escaped>>

\* ---------------------------------------------------------------- fractions
Frac(n, d) == [num |-> n, den |-> d]
FracEq(x, y) == x.num * y.den = y.num * x.den
FracLe(x, y) == x.num * y.den <= y.num * x.den
FracLt(x, y) == x.num * y.den < y.num * x.den
FracAdd(x, y) == Frac(x.num * y.den + y.num * x.den, x.den * y.den)
FracSub(x, y) == Frac(x.num * y.den - y.num * x.den, x.den * y.den)
FracMul(x, y) == Frac(x.num * y.num, x.den * y.den)

\* --------------------------------------------------- the instances' classes
ClassOf(i) ==
    CASE i \in {"a", "A", "B", "fade", "tog1", "tog2", "pfade", "ifade", "ptog"}
            -> "FadeAnimation"
      [] i = "blink" -> "BlinkAnimation"
      [] i \in {"pscale", "iscale"} -> "ScaleAnimation"
      [] i = "slide" -> "SlideAnimation"
      [] i = "nav" -> "NavigationAnimation"
      [] i = "res" -> "ResultFadeInAnimation"
      [] i = "cur" -> "CurrentResultAnimation"
      [] i = "cblink" -> "CursorBlinkAnimation"
      [] i = "wrap" -> "PopAnimationWrapper"
      [] i = "fin" -> "PanelFadeIn"
      [] i = "fout" -> "PanelFadeOut"

TargetOf(i) ==
    CASE i \in {"a", "A", "B", "fade", "blink"} -> "obj"
      [] i = "tog1" -> "obj1"
      [] i = "tog2" -> "obj2"
      [] i \in {"pfade", "pscale"} -> "popup"
      [] i \in {"ifade", "iscale", "wrap"} -> "tooltip"
      [] i = "slide" -> "panel"
      [] i = "nav" -> "result"
      [] i \in {"res", "cur"} -> "other"
      [] i = "cblink" -> "cursor"
      [] i = "ptog" -> "toggle_state"
      [] i \in {"fin", "fout"} -> "editor"

PropertyOf(i) ==
    CASE i \in {"a", "A", "B", "fade", "pfade", "ifade"} -> "opacity"
      [] i = "blink" -> "visible"
      [] i \in {"tog1", "tog2", "ptog"} -> "highlight"
      [] i \in {"pscale", "iscale"} -> "scale"
      [] i = "slide" -> "position"
      [] i \in {"res", "cur"} -> "highlight_intensity"
      [] i = "cblink" -> "visibility"
      [] i \in {"fin", "fout"} -> "search_panel_opacity"

\* AnimationState.get_progress, as a fraction
get_progress(cs, ms) ==
    IF cs >= ms THEN Frac(1, 1) ELSE Frac(cs, ms)

\* get_eased_progress("ease_out_quad"): -(p * (p - 2))
ease_out_quad(p) == Frac(0 - (p.num * (p.num - 2 * p.den)), p.den * p.den)

\* FadeAnimation.on_frame: start_value + (end_value - start_value) * progress
FadeValue(i, cs) ==
    LET e == ease_out_quad(get_progress(cs, max_steps[i]))
    IN  Frac(start_value[i] * e.den + (end_value[i] - start_value[i]) * e.num, e.den)

\* BlinkAnimation.on_frame: 1 if (self.current_step % 2) == 0 else 0
BlinkValue(cs) == IF cs % 2 = 0 THEN Frac(1, 1) ELSE Frac(0, 1)

\* ScaleAnimation.on_frame eases with ease_out_elastic (2^(-10p) sin(..)), which
\* has no exact fraction: the value is kept as the term it is computed from
ScaleValue(i, cs) == [ease_out_elastic |-> get_progress(cs, max_steps[i])]

\* the easing names get_eased_progress tests for (lines 78-107)
EasingKinds ==
    {"linear", "ease_in_quad", "ease_out_quad", "ease_in_out_quad",
     "ease_out_bounce", "ease_in_elastic", "ease_out_elastic"}

\* lines 84-89: p = linear_progress * 2; 0.5 * p * p when p < 1, else
\* p -= 1; -0.5 * (p * (p - 2) - 1)
ease_in_out_quad(lp) ==
    LET p == FracMul(lp, Frac(2, 1))
        q == FracSub(p, Frac(1, 1))
    IN  IF FracLt(p, Frac(1, 1))
            THEN FracMul(Frac(1, 2), FracMul(p, p))
            ELSE FracMul(Frac(0 - 1, 2),
                         FracSub(FracMul(q, FracSub(q, Frac(2, 1))), Frac(1, 1)))

\* a bounce without the offsets of its later segments: 7.5625 * p * p throughout
bounce_unshifted(lp) == FracMul(Frac(121, 16), FracMul(lp, lp))

\* lines 90-101, with 7.5625 = 121/16, 1/2.75 = 4/11, 1.5/2.75 = 6/11,
\* 2.25/2.75 = 9/11, 2.625/2.75 = 21/22, 0.9375 = 15/16, 0.984375 = 63/64
ease_out_bounce(lp) ==
    LET sq(p) == FracMul(Frac(121, 16), FracMul(p, p))
    IN  IF FracLt(lp, Frac(4, 11)) THEN sq(lp)
        ELSE IF FracLt(lp, Frac(8, 11))
            THEN FracAdd(sq(FracSub(lp, Frac(6, 11))), Frac(3, 4))
        ELSE IF FracLt(lp, Frac(10, 11))
            THEN FracAdd(sq(FracSub(lp, Frac(9, 11))), Frac(15, 16))
        ELSE FracAdd(sq(FracSub(lp, Frac(21, 22))), Frac(63, 64))

\* a selection that gives an unknown name the curve of the parameter's default
\* value, "ease_out_quad"
eased_default_quad(easing_function, lp) ==
    CASE easing_function = "linear" -> lp
      [] easing_function = "ease_in_quad" -> FracMul(lp, lp)
      [] easing_function = "ease_in_out_quad" -> ease_in_out_quad(lp)
      [] easing_function = "ease_out_bounce" -> ease_out_bounce(lp)
      [] easing_function \in {"ease_in_elastic", "ease_out_elastic"} -> lp
      [] OTHER -> ease_out_quad(lp)

\* AnimationState.get_eased_progress(easing_function) at linear progress lp.
\* The elastic curves (2^(10p) sin(..)) have no exact fraction between the end
\* points: there the value is kept as the term it is computed from.
get_eased_progress(easing_function, lp) ==
    LET ends == FracEq(lp, Frac(0, 1)) \/ FracEq(lp, Frac(1, 1))
    IN  CASE easing_function = "linear" -> lp
          [] easing_function = "ease_in_quad" -> FracMul(lp, lp)
          [] easing_function = "ease_out_quad" -> ease_out_quad(lp)
          [] easing_function = "ease_in_out_quad" -> ease_in_out_quad(lp)
          [] easing_function = "ease_out_bounce" -> ease_out_bounce(lp)
          [] easing_function = "ease_in_elastic" ->
                IF ends THEN lp ELSE [ease_in_elastic |-> lp]
          [] easing_function = "ease_out_elastic" ->
                IF ends THEN lp ELSE [ease_out_elastic |-> lp]
          [] OTHER -> lp

\* SlideAnimation.on_frame: start_pos + (end_pos - start_pos) * progress, the
\* progress eased with ease_out_quad
SlideValue(i, cs) ==
    LET e == get_eased_progress("ease_out_quad", get_progress(cs, max_steps[i]))
    IN  FracAdd(Frac(start_value[i], 1),
                FracMul(Frac(end_value[i] - start_value[i], 1), e))

\* ResultFadeInAnimation.on_frame (micro_animations.py line 272):
\* 0.2 + (0.5 * progress), the progress eased with ease_out_quad
ResultFadeInValue(i, cs) ==
    LET e == get_eased_progress("ease_out_quad", get_progress(cs, max_steps[i]))
    IN  FracAdd(Frac(1, 5), FracMul(Frac(1, 2), e))

\* CurrentResultAnimation.on_frame (line 243): 0.7 + 0.3 * (0.5 + 0.5 *
\* sin(progress * 2 * pi)), kept as the term it is computed from
CurrentResultValue(i, cs) == [pulse |-> get_progress(cs, max_steps[i])]

\* the BlinkAnimation of animate_cursor_blink, on_frame (micro_animations.py
\* lines 200-207): blink_value = 1.0 if blink_progress < 0.5 else 0.0
CursorBlinkValue(i, cs) ==
    IF FracLt(get_progress(cs, max_steps[i]), Frac(1, 2)) THEN Frac(1, 1) ELSE Frac(0, 1)

\* PanelFadeIn.on_frame (editor_core.py lines 902-905):
\* search_panel_opacity = get_eased_progress("ease_out_cubic")
PanelFadeInValue(i, cs) ==
    get_eased_progress("ease_out_cubic", get_progress(cs, max_steps[i]))

\* PanelFadeOut.on_frame (lines 920-923):
\* search_panel_opacity = 1.0 - get_eased_progress("ease_in_cubic")
PanelFadeOutValue(i, cs) ==
    FracSub(Frac(1, 1),
            get_eased_progress("ease_in_cubic", get_progress(cs, max_steps[i])))

FrameValue(i, cs) ==
    CASE ClassOf(i) = "FadeAnimation" -> FadeValue(i, cs)
      [] ClassOf(i) = "BlinkAnimation" -> BlinkValue(cs)
      [] ClassOf(i) = "ScaleAnimation" -> ScaleValue(i, cs)
      [] ClassOf(i) = "SlideAnimation" -> SlideValue(i, cs)
      [] ClassOf(i) = "ResultFadeInAnimation" -> ResultFadeInValue(i, cs)
      [] ClassOf(i) = "CurrentResultAnimation" -> CurrentResultValue(i, cs)
      [] ClassOf(i) = "CursorBlinkAnimation" -> CursorBlinkValue(i, cs)
      [] ClassOf(i) = "PanelFadeIn" -> PanelFadeInValue(i, cs)
      [] ClassOf(i) = "PanelFadeOut" -> PanelFadeOutValue(i, cs)

\* NavigationAnimation.on_frame (micro_animations.py lines 296-313): the
\* progress is asked for under the name "elastic_out"; scale is
\* 1.0 + 0.2 * (progress * 2) below 0.5 and 1.2 - 0.2 * ((progress - 0.5) * 2)
\* from 0.5 on; highlight_intensity is set to 1.0
NavigationFrame(i, cs) ==
    LET progress == get_eased_progress("elastic_out", get_progress(cs, max_steps[i]))
        scale == IF FracLt(progress, Frac(1, 2))
                    THEN FracAdd(Frac(1, 1),
                                 FracMul(Frac(1, 5), FracMul(progress, Frac(2, 1))))
                    ELSE FracSub(Frac(6, 5),
                                 FracMul(Frac(1, 5),
                                         FracMul(FracSub(progress, Frac(1, 2)), Frac(2, 1))))
    IN  [p \in {"scale", "highlight_intensity"} |->
            IF p = "scale" THEN scale ELSE Frac(1, 1)]

\* an on_complete that resets the scale and leaves the highlight at its maximum
NavigationCompleteKeeps ==
    [p \in {"scale", "highlight_intensity"} |-> Frac(1, 1)]

\* NavigationAnimation.on_complete (lines 318-324): highlight_intensity = 0.7,
\* scale = 1.0
NavigationComplete ==
    [p \in {"scale", "highlight_intensity"} |->
        IF p = "scale" THEN Frac(1, 1) ELSE Frac(7, 10)]

\* the attributes on_frame of instance i writes at step cs, with their values
FrameWrites(i, cs) ==
    IF ClassOf(i) = "NavigationAnimation"
        THEN NavigationFrame(i, cs)
        ELSE [p \in {PropertyOf(i)} |-> FrameValue(i, cs)]

\* PanelFadeOut.on_complete (editor_core.py lines 925-929): search_query = "",
\* search_results = [] (and current_search_index = 0); a string and a list are
\* kept by their lengths
PanelFadeOutComplete ==
    [p \in {"search_query", "search_results"} |-> Frac(0, 1)]

\* the attributes on_complete of instance i writes: the base on_complete
\* (animations.py lines 63-65) writes none
CompleteWrites(i) ==
    IF ClassOf(i) = "NavigationAnimation"
        THEN NavigationComplete
    ELSE IF ClassOf(i) = "PanelFadeOut"
        THEN PanelFadeOutComplete
        ELSE [p \in {} |-> Frac(0, 1)]

\* the on_complete of instance i sets self.animating = False: the base
\* on_complete does, the overrides of NavigationAnimation and of PanelFadeOut
\* do not call it
ClearsAnimating(i) == ClassOf(i) \notin {"NavigationAnimation", "PanelFadeOut"}

\* hasattr(target, property) / setattr(target, property, v)
hasattr(o, p) == <<o, p>> \in DOMAIN value
\* setattr without the hasattr test before it: the attribute is created
setattr_creates(o, p, v) ==
    value' = [x \in DOMAIN value \cup {<<o, p>>} |-> IF x = <<o, p>> THEN v ELSE value[x]]

setattr(o, p, v) ==
    value' = IF hasattr(o, p) THEN [value EXCEPT ![<<o, p>>] = v] ELSE value

\* the writes W (attribute -> value) of one callback, each under its hasattr test
setattrs(o, W) ==
    value' = [x \in DOMAIN value |->
                 IF x[1] = o /\ x[2] \in DOMAIN W THEN W[x[2]] ELSE value[x]]

\* the callback of instance i has written target o and has then invoked the
\* redraw callback (on_update, or _refresh_ui in the recipes' subclasses)
redrawn(o) == dirty' = dirty \ {o}

\* ------------------------------------------------------------ construction
\* AnimationState.__init__ sets max_steps = 10.  The instances whose ticks are
\* raced against each other get RaceSteps frames instead, to keep the
\* interleavings enumerable; "fade" and the search-result instances keep the
\* default and "blink" has 2 * blink_count.
InitMaxSteps(i, bc) ==
    CASE i \in {"fade", "nav", "res", "cur", "cblink", "fin", "fout"} -> DefaultMaxSteps
      [] i = "blink" -> bc * 2
      [] OTHER -> RaceSteps

\* the attributes the targets start with
InitValue ==
    [x \in {<<"obj", "opacity">>, <<"obj", "visible">>, <<"obj1", "highlight">>,
            <<"obj2", "highlight">>, <<"popup", "opacity">>, <<"popup", "scale">>,
            <<"tooltip", "opacity">>, <<"tooltip", "scale">>,
            <<"panel", "position">>, <<"result", "scale">>,
            <<"result", "highlight_intensity">>, <<"other", "highlight_intensity">>,
            <<"cursor", "visibility">>}
        |-> IF x \in {<<"result", "scale">>, <<"cursor", "visibility">>} THEN Frac(1, 1)
            ELSE IF x[2] = "highlight_intensity" THEN Frac(1, 2)
            ELSE Frac(0, 1)]

\* PopInAnimation.__init__: start_scale=1.1
DefaultStartScale == Frac(11, 10)

\* MicroAnimations.register_animations: the recipe factories the singleton
\* registers in the global animation_manager when the module is imported
register_animations ==
    [k \in {"button_press", "toggle_on", "toggle_off", "panel_focus",
            "notification_pulse", "tab_flash"} |-> "factory"]

\* no call of the manager made yet
NoOp == [name |-> "none", key |-> "none"]

\* AnimationManager.__init__: self.animations = {}
EmptyRegistry == [k \in {} |-> "factory"]

\* the state after construction: reg is what the global manager holds, val the
\* attributes the targets have, ss the start_scale the PopInAnimation was given
InitObjects(bc, sv, reg, val, ss) ==
    /\ animating = [i \in Inst |-> FALSE]
    /\ current_step = [i \in Inst |-> 0]
    /\ max_steps = [i \in Inst |-> InitMaxSteps(i, bc)]
    /\ timer = [i \in Inst |-> None]
    /\ start_value = [i \in Inst |-> IF i = "slide" THEN 0 - 100 ELSE sv]
    /\ end_value = [i \in Inst |-> IF i = "slide" THEN 0 ELSE 1 - sv]
    /\ on_complete = [i \in Inst |-> "on_complete"]
    /\ pc = [t \in Threads |-> IF t = Caller THEN "idle" ELSE "free"]
    /\ self = [t \in Threads |-> NoInst]
    /\ tmp = [t \in Threads |-> 0]
    /\ value = val
    /\ animations = reg
    /\ pop = [fade_animation |-> NoInst, scale_animation |-> NoInst]
    /\ starts = 0
    /\ quiesced = [i \in Inst |-> FALSE]
    /\ restarted = [i \in Inst |-> "no"]
    /\ frames = [i \in Inst |-> 0]
    /\ cb_calls = 0
    /\ popin = [fade_animation |-> NoInst, scale_animation |-> NoInst,
                start_scale |-> ss]
    /\ mpc = [m \in Mutators |-> "idle"]
    /\ ops = 0
    /\ op = NoOp
    /\ ret = "none"
    /\ exc = "none"
    /\ escaped = {}
    /\ completions = [i \in Inst |-> 0]
    /\ dirty = {}

\* the targets have every attribute and the PopInAnimation the default scales
InitRegistry(bc, sv, reg) == InitObjects(bc, sv, reg, InitValue, DefaultStartScale)

\* micro_animations has been imported: its factories are registered
InitWith(bc, sv) == InitRegistry(bc, sv, register_animations)

\* Fade(target, "opacity", 0.0, 1.0) and Blink(blink_count=3), the defaults
Init == InitWith(DefaultBlinkCount, 0)

\* ------------------------------------------------------------ Timer objects
\* A slot holds one threading.Timer: "free" (no object), "created" (constructed,
\* not started), "created_cancelled" (cancel() before start()), "pending"
\* (started, waiting for its interval), or the statement of _advance it runs.
FreeSlots == {s \in Slots : pc[s] = "free"}
NewSlot == CHOOSE s \in FreeSlots : \A r \in FreeSlots : s <= r
Unstarted(h) == h \in Slots /\ pc[h] \in {"created", "created_cancelled"}

\* the timers of instance i that are scheduled and have not fired or been cancelled
PendingTimers(i) == {s \in Slots : pc[s] = "pending" /\ self[s] = i}
\* the timer threads that are executing _advance of instance i
Ticking(i) ==
    {s \in Slots : self[s] = i /\ pc[s] \notin {"free", "created", "created_cancelled", "pending"}}

\* the end of a thread's function: a timer thread ends, the caller is idle again
Finish(t) == IF t = Caller THEN "idle" ELSE "free"

ghosts == <<starts, quiesced, restarted, frames, completions, cb_calls>>
config == <<max_steps, start_value, end_value>>

\* ------------------------------------------------- AnimationState._advance
\* a timer callback without the test of line 45: it always advances
FireUnguarded(s) ==
    /\ pc[s] = "pending"
    /\ timer' = [i \in Inst |-> IF timer[i] = s THEN Dead ELSE timer[i]]
    /\ pc' = [pc EXCEPT ![s] = "adv_load"]
    /\ UNCHANGED <<animating, current_step, config, ext, on_complete, self, tmp, value,
                   dirty, animations, pop, ghosts>>

\* The timer fires: its interval has passed and cancel() has not been called.
\* line 45: if not self.animating: return
Fire(s) ==
    /\ pc[s] = "pending"
    /\ timer' = [i \in Inst |-> IF timer[i] = s THEN Dead ELSE timer[i]]
    /\ IF animating[self[s]]
          THEN pc' = [pc EXCEPT ![s] = "adv_load"] /\ self' = self
          ELSE pc' = [pc EXCEPT ![s] = "free"] /\ self' = [self EXCEPT ![s] = NoInst]
    /\ UNCHANGED <<animating, current_step, config, ext, on_complete, tmp, value, dirty,
                   animations, pop, ghosts>>

\* line 48: self.current_step += 1, the load
AdvLoad(s) ==
    /\ pc[s] = "adv_load"
    /\ tmp' = [tmp EXCEPT ![s] = current_step[self[s]]]
    /\ pc' = [pc EXCEPT ![s] = "adv_store"]
    /\ UNCHANGED <<animating, current_step, config, ext, timer, on_complete, self, value, dirty, animations, pop, ghosts>>

\* line 48: self.current_step += 1, the store
AdvStore(s) ==
    /\ pc[s] = "adv_store"
    /\ current_step' = [current_step EXCEPT ![self[s]] = tmp[s] + 1]
    /\ tmp' = [tmp EXCEPT ![s] = 0]
    /\ pc' = [pc EXCEPT ![s] = "adv_test"]
    /\ UNCHANGED <<animating, config, ext, timer, on_complete, self, value, dirty,
                   animations, pop, ghosts>>

\* a completion test that is late by one step: current_step > max_steps
AdvTestLate(s) ==
    /\ pc[s] = "adv_test"
    /\ pc' = [pc EXCEPT ![s] = IF current_step[self[s]] > max_steps[self[s]]
                                  THEN "on_complete" ELSE "on_frame"]
    /\ UNCHANGED <<animating, current_step, config, ext, timer, on_complete, self, tmp,
                   value, dirty, animations, pop, ghosts>>

\* line 51: if self.current_step >= self.max_steps
AdvTest(s) ==
    /\ pc[s] = "adv_test"
    /\ pc' = [pc EXCEPT ![s] = IF current_step[self[s]] >= max_steps[self[s]]
                                  THEN "on_complete" ELSE "on_frame"]
    /\ UNCHANGED <<animating, current_step, config, ext, timer, on_complete, self, tmp,
                   value, dirty, animations, pop, ghosts>>

\* lines 52-53: self.on_complete(); return.  The base on_complete sets animating
\* to False; PopOutAnimation's completion_wrapper calls it and then the
\* caller-supplied callback; NavigationAnimation's override writes the target
\* and asks for a redraw.
OnComplete(s) ==
    LET i == self[s]
    IN  /\ pc[s] = "on_complete"
        /\ animating' = IF ClearsAnimating(i) THEN [animating EXCEPT ![i] = FALSE]
                                               ELSE animating
        /\ setattrs(TargetOf(i), CompleteWrites(i))
        /\ IF DOMAIN CompleteWrites(i) = {} THEN UNCHANGED dirty
                                            ELSE redrawn(TargetOf(i))
        /\ completions' = [completions EXCEPT ![i] = @ + 1]
        /\ cb_calls' = IF on_complete[i] = "completion_wrapper"
                          THEN cb_calls + 1 ELSE cb_calls
        /\ pc' = [pc EXCEPT ![s] = "free"]
        /\ self' = [self EXCEPT ![s] = NoInst]
        /\ UNCHANGED <<current_step, config, ext, timer, on_complete, tmp,
                       animations, pop, starts, quiesced, restarted, frames>>

\* line 56: self.on_frame(): the subclass writes the target (lines 132-133)
\* and invokes on_update (lines 136-137)
OnFrame(s) ==
    LET i == self[s]
    IN  /\ pc[s] = "on_frame"
        /\ IF ClassOf(i) = "NavigationAnimation"
              THEN setattrs(TargetOf(i), FrameWrites(i, current_step[i]))
              ELSE setattr(TargetOf(i), PropertyOf(i), FrameValue(i, current_step[i]))
        /\ redrawn(TargetOf(i))
        /\ frames' = [frames EXCEPT ![i] = @ + 1]
        /\ pc' = [pc EXCEPT ![s] = "sched_check"]
        /\ UNCHANGED <<animating, current_step, config, ext, timer, on_complete, self, tmp,
                       animations, pop, starts, quiesced, restarted, completions, cb_calls>>

\* ------------------------------------- AnimationState.schedule_next_frame
\* line 35: if not self.animating: return
SchedCheck(t) ==
    /\ pc[t] = "sched_check"
    /\ IF animating[self[t]]
          THEN pc' = [pc EXCEPT ![t] = "sched_new"] /\ self' = self
          ELSE pc' = [pc EXCEPT ![t] = Finish(t)] /\ self' = [self EXCEPT ![t] = NoInst]
    /\ UNCHANGED <<animating, current_step, config, ext, timer, on_complete, tmp, value, dirty, animations, pop, ghosts>>

\* line 39: self.timer = threading.Timer(step_duration, self._advance).  A Timer
\* that was never started and is no longer referenced is garbage.
SchedNew(t) ==
    LET i == self[t]
        n == NewSlot
        old == timer[i]
    IN  /\ pc[t] = "sched_new"
        /\ FreeSlots # {}
        /\ timer' = [timer EXCEPT ![i] = n]
        /\ pc' = [x \in Threads |->
                    IF x = t THEN "sched_daemon"
                    ELSE IF x = n THEN "created"
                    ELSE IF x = old /\ Unstarted(old) THEN "free"
                    ELSE pc[x]]
        /\ self' = [x \in Threads |->
                    IF x = n THEN i
                    ELSE IF x = old /\ Unstarted(old) THEN NoInst
                    ELSE self[x]]
        /\ UNCHANGED <<animating, current_step, config, ext, on_complete, tmp, value, dirty,
                       animations, pop, ghosts>>

\* line 40: self.timer.daemon = True.  AttributeError when self.timer is None,
\* RuntimeError when the Timer it names has been started: the thread's function
\* ends there.
SchedDaemon(t) ==
    /\ pc[t] = "sched_daemon"
    /\ IF Unstarted(timer[self[t]])
          THEN pc' = [pc EXCEPT ![t] = "sched_start"] /\ UNCHANGED self
          ELSE /\ pc' = [pc EXCEPT ![t] = Finish(t)]
               /\ self' = [self EXCEPT ![t] = NoInst]
    /\ UNCHANGED <<animating, current_step, config, ext, timer, on_complete, tmp, value, dirty,
                   animations, pop, ghosts>>

\* line 41: self.timer.start().  A cancelled Timer starts and ends at once; a
\* Timer that has been started raises RuntimeError, None raises AttributeError.
SchedStart(t) ==
    LET h == timer[self[t]]
    IN  /\ pc[t] = "sched_start"
        /\ pc' = [x \in Threads |->
                    IF x = t THEN Finish(t)
                    ELSE IF x = h /\ Unstarted(h)
                         THEN (IF pc[h] = "created" THEN "pending" ELSE "free")
                    ELSE pc[x]]
        /\ self' = [x \in Threads |->
                    IF x = t THEN NoInst
                    ELSE IF x = h /\ Unstarted(h) /\ pc[h] = "created_cancelled" THEN NoInst
                    ELSE self[x]]
        /\ timer' = IF Unstarted(h) /\ pc[h] = "created_cancelled"
                       THEN [timer EXCEPT ![self[t]] = Dead] ELSE timer
        /\ UNCHANGED <<animating, current_step, config, ext, on_complete, tmp, value, dirty,
                       animations, pop, ghosts>>

\* ---------------------------------------------------- AnimationState.start
\* line 21: self.animating = True
Start21(i) ==
    /\ animating' = [animating EXCEPT ![i] = TRUE]
    /\ pc' = [pc EXCEPT ![Caller] = "start_22"]
    /\ self' = [self EXCEPT ![Caller] = i]
    /\ quiesced' = [quiesced EXCEPT ![i] = FALSE]
    /\ restarted' = [restarted EXCEPT ![i] =
                        IF animating[i] /\ current_step[i] > 0 THEN "resetting" ELSE "no"]

\* lines 22-24: self.current_step = 0; self.start_time = time.time();
\* self.schedule_next_frame()
Start22 ==
    LET i == self[Caller]
    IN  /\ pc[Caller] = "start_22"
        /\ current_step' = [current_step EXCEPT ![i] = 0]
        /\ restarted' = [restarted EXCEPT ![i] = IF @ = "resetting" THEN "yes" ELSE @]
        /\ frames' = [frames EXCEPT ![i] = 0]
        /\ completions' = [completions EXCEPT ![i] = 0]
        /\ pc' = [pc EXCEPT ![Caller] = "sched_check"]
        /\ UNCHANGED <<animating, config, ext, timer, on_complete, self, tmp, value, dirty,
                       animations, pop, starts, quiesced, cb_calls>>

\* ----------------------------------------------------- AnimationState.stop
\* line 28: self.animating = False
Stop28(i) ==
    /\ animating' = [animating EXCEPT ![i] = FALSE]
    /\ pc' = [pc EXCEPT ![Caller] = "stop_29"]
    /\ self' = [self EXCEPT ![Caller] = i]

\* line 29: if self.timer:
Stop29 ==
    /\ pc[Caller] = "stop_29"
    /\ IF timer[self[Caller]] # None
          THEN /\ pc' = [pc EXCEPT ![Caller] = "stop_30"]
               /\ UNCHANGED <<self, quiesced>>
          ELSE /\ pc' = [pc EXCEPT ![Caller] = "idle"]
               /\ self' = [self EXCEPT ![Caller] = NoInst]
               /\ quiesced' = [quiesced EXCEPT ![self[Caller]] = TRUE]
    /\ UNCHANGED <<animating, current_step, config, ext, timer, on_complete, tmp, value, dirty, animations, pop, starts, restarted, frames, completions, cb_calls>>

\* line 30: self.timer.cancel().  A pending Timer never runs its function, a
\* Timer not yet started will end as soon as it is started, a Timer that has
\* fired is not affected.
Stop30 ==
    LET h == timer[self[Caller]]
    IN  /\ pc[Caller] = "stop_30"
        /\ pc' = [x \in Threads |->
                    IF x = Caller THEN "stop_31"
                    ELSE IF x = h /\ pc[h] = "pending" THEN "free"
                    ELSE IF x = h /\ pc[h] = "created" THEN "created_cancelled"
                    ELSE pc[x]]
        /\ self' = [x \in Threads |->
                    IF x = h /\ x # Caller /\ pc[h] = "pending" THEN NoInst ELSE self[x]]
        /\ timer' = IF h \in Slots /\ pc[h] = "pending"
                       THEN [i \in Inst |-> IF timer[i] = h THEN Dead ELSE timer[i]]
                       ELSE timer
        /\ UNCHANGED <<animating, current_step, config, ext, on_complete, tmp, value, dirty,
                       animations, pop, ghosts>>

\* line 31: self.timer = None
Stop31 ==
    LET i == self[Caller]
        h == timer[i]
    IN  /\ pc[Caller] = "stop_31"
        /\ timer' = [timer EXCEPT ![i] = None]
        /\ pc' = [x \in Threads |->
                    IF x = Caller THEN "idle"
                    ELSE IF x = h /\ Unstarted(h) THEN "free"
                    ELSE pc[x]]
        /\ self' = [x \in Threads |->
                    IF x = Caller \/ (x = h /\ Unstarted(h)) THEN NoInst ELSE self[x]]
        /\ quiesced' = [quiesced EXCEPT ![i] = TRUE]
        /\ UNCHANGED <<animating, current_step, config, ext, on_complete, tmp, value, dirty,
                       animations, pop, starts, restarted, frames, completions, cb_calls>>

\* ------------------------------------------------ the handlers as one step
\* AnimationState.start (lines 19-24 and 33-41) run without interruption
StartWhole(i) ==
    LET n == NewSlot
        old == timer[i]
    IN  /\ FreeSlots # {}
        /\ animating' = [animating EXCEPT ![i] = TRUE]
        /\ current_step' = [current_step EXCEPT ![i] = 0]
        /\ timer' = [timer EXCEPT ![i] = n]
        /\ pc' = [x \in Threads |->
                    IF x = n THEN "pending"
                    ELSE IF x = old /\ Unstarted(old) THEN "free" ELSE pc[x]]
        /\ self' = [x \in Threads |->
                    IF x = n THEN i
                    ELSE IF x = old /\ Unstarted(old) THEN NoInst ELSE self[x]]
        /\ quiesced' = [quiesced EXCEPT ![i] = FALSE]
        /\ restarted' = [restarted EXCEPT ![i] =
                            IF animating[i] /\ current_step[i] > 0 THEN "yes" ELSE "no"]
        /\ frames' = [frames EXCEPT ![i] = 0]
        /\ completions' = [completions EXCEPT ![i] = 0]

\* AnimationState.stop (lines 26-31) run without interruption
StopWhole(i) ==
    LET h == timer[i]
        cancelled == h \in Slots /\ (pc[h] = "pending" \/ Unstarted(h))
    IN  /\ animating' = [animating EXCEPT ![i] = FALSE]
        /\ timer' = [timer EXCEPT ![i] = None]
        /\ pc' = IF cancelled THEN [pc EXCEPT ![h] = "free"] ELSE pc
        /\ self' = IF cancelled THEN [self EXCEPT ![h] = NoInst] ELSE self
        /\ quiesced' = [quiesced EXCEPT ![i] = TRUE]

\* AnimationState._advance (lines 43-57, with on_frame or on_complete and
\* schedule_next_frame) run without interruption when timer s fires.  The
\* Timer it schedules takes the slot of the one that fired.
AdvanceWhole(s) ==
    LET i == self[s]
        cs == current_step[i] + 1
        ends == ~animating[i] \/ cs >= max_steps[i]
        completes == animating[i] /\ cs >= max_steps[i]
    IN  /\ pc[s] = "pending"
        /\ current_step' = IF animating[i] THEN [current_step EXCEPT ![i] = cs]
                                           ELSE current_step
        /\ animating' = [animating EXCEPT ![i] =
                             animating[i] /\ (cs < max_steps[i] \/ ~ClearsAnimating(i))]
        /\ cb_calls' = IF completes /\ on_complete[i] = "completion_wrapper"
                          THEN cb_calls + 1 ELSE cb_calls
        /\ completions' = IF completes THEN [completions EXCEPT ![i] = @ + 1]
                                       ELSE completions
        /\ IF ~ends
              THEN /\ IF ClassOf(i) = "NavigationAnimation"
                         THEN setattrs(TargetOf(i), FrameWrites(i, cs))
                         ELSE setattr(TargetOf(i), PropertyOf(i), FrameValue(i, cs))
                   /\ redrawn(TargetOf(i))
                   /\ frames' = [frames EXCEPT ![i] = @ + 1]
              ELSE IF completes /\ DOMAIN CompleteWrites(i) # {}
              THEN /\ setattrs(TargetOf(i), CompleteWrites(i))
                   /\ redrawn(TargetOf(i))
                   /\ UNCHANGED frames
              ELSE UNCHANGED <<value, dirty, frames>>
        /\ timer' = [j \in Inst |->
                        IF j = i /\ ~ends THEN s
                        ELSE IF timer[j] = s THEN Dead
                        ELSE timer[j]]
        /\ pc' = [x \in Threads |->
                    IF x = s THEN (IF ends THEN "free" ELSE "pending")
                    ELSE IF ~ends /\ x = timer[i] /\ Unstarted(timer[i]) THEN "free"
                    ELSE pc[x]]
        /\ self' = [x \in Threads |->
                    IF x = s THEN (IF ends THEN NoInst ELSE i)
                    ELSE IF ~ends /\ x = timer[i] /\ Unstarted(timer[i]) THEN NoInst
                    ELSE self[x]]
        /\ UNCHANGED <<config, ext, on_complete, tmp, animations, pop, starts,
                       quiesced, restarted>>

\* ------------------------------------------------------------ the threads
\* a step of a timer thread
TimerStep ==
    \E s \in Slots :
        \/ Fire(s)
        \/ AdvLoad(s)
        \/ AdvStore(s)
        \/ AdvTest(s)
        \/ OnComplete(s)
        \/ OnFrame(s)
        \/ SchedCheck(s)
        \/ SchedNew(s)
        \/ SchedDaemon(s)
        \/ SchedStart(s)

\* a step of the caller inside start()
StartStep ==
    \/ Start22
    \/ SchedCheck(Caller)
    \/ SchedNew(Caller)
    \/ SchedDaemon(Caller)
    \/ SchedStart(Caller)

\* a step of the caller inside stop()
StopStep ==
    \/ Stop29
    \/ Stop30
    \/ Stop31

CallerIdle == pc[Caller] = "idle"

\* the caller calls a.start()
start(i) ==
    /\ CallerIdle
    /\ starts < MaxStarts
    /\ starts' = starts + 1
    /\ Start21(i)
    /\ UNCHANGED <<current_step, config, ext, timer, on_complete, tmp, value, dirty,
                   animations, pop, frames, completions, cb_calls>>

\* the caller calls a.stop()
stop(i) ==
    /\ CallerIdle
    /\ Stop28(i)
    /\ UNCHANGED <<current_step, config, ext, timer, on_complete, tmp, value, dirty,
                   animations, pop, ghosts>>

\* One Animation instance, started and stopped by the caller while its timers tick
Next ==
    \/ start("a")
    \/ stop("a")
    \/ StartStep
    \/ StopStep
    \/ TimerStep

Spec == Init /\ [][Next]_vars

\* -------------------------------------------------------- AnimationManager
\* the instances the registry holds (the other entries are factories)
Registered == {animations[k] : k \in DOMAIN animations} \cap Inst

\* add_animation(name, animation): self.animations[name] = animation
add_animation(name, animation) ==
    animations' = [k \in DOMAIN animations \cup {name} |->
                      IF k = name THEN animation ELSE animations[k]]

\* start_animation(name): if name in self.animations: self.animations[name].start()
start_animation(name) ==
    /\ CallerIdle
    /\ starts < MaxStarts
    /\ name \in DOMAIN animations
    /\ animations[name] \in Inst
    /\ starts' = starts + 1
    /\ Start21(animations[name])
    /\ UNCHANGED <<current_step, config, ext, timer, on_complete, tmp, value, dirty,
                   animations, pop, frames, completions, cb_calls>>

\* the caller registers instance x under name (editor_core.animate_tab_transition
\* registers a new instance under 'tab_transition' on every call)
AddAnimation(name, x) ==
    /\ CallerIdle
    /\ add_animation(name, x)
    /\ UNCHANGED <<animating, current_step, config, ext, timer, on_complete, pc, self, tmp,
                   value, dirty, pop, ghosts>>

\* Two instances A and B registered, replaced and started under one key
NextMgr ==
    \/ \E x \in {"A", "B"} : AddAnimation("k", x)
    \/ start_animation("k")
    \/ StartStep
    \/ TimerStep

SpecMgr == Init /\ [][NextMgr]_vars

\* --------------------------------------------------------- MicroAnimations
\* a key derived from the target's type instead of its identity
id_of_type(o) == "140000"

\* id(obj): the identity of a live object, as the decimal text f"{...}" gives it
id(o) ==
    CASE o = "obj1" -> "140001"
      [] o = "obj2" -> "140002"
      [] o = "obj" -> "140003"
      [] o = "popup" -> "140004"
      [] o = "result" -> "140005"
      [] o = "other" -> "140006"
      [] o = "cursor" -> "140007"
      [] o = "toggle_state" -> "140008"

\* animation_name = f"toggle_{id(toggle_obj)}"
toggle_name(o) == "toggle_" \o id(o)

\* the FadeAnimation the toggle_on / toggle_off factory builds for target o
ToggleInst(o) == IF o = "obj1" THEN "tog1" ELSE "tog2"
ToggleTargets == {"obj1", "obj2"}

\* animate_toggle, lines 140-146: the instance registered under the target's
\* key, built by the toggle_on / toggle_off factory at the first call
Toggled(o) ==
    IF toggle_name(o) \in DOMAIN animations
        THEN animations[toggle_name(o)] ELSE ToggleInst(o)

toggle_lookup(o, state) ==
    LET name == toggle_name(o)
        i == ToggleInst(o)
        isnew == name \notin DOMAIN animations
    IN  /\ pc[Caller] = "idle"
        /\ starts < MaxStarts
        /\ starts' = starts + 1
        /\ (IF state THEN "toggle_on" ELSE "toggle_off") \in DOMAIN animations
        /\ IF isnew THEN add_animation(name, i) ELSE UNCHANGED animations
        /\ start_value' = IF isnew
                             THEN [start_value EXCEPT ![i] = IF state THEN 0 ELSE 1]
                             ELSE start_value
        /\ end_value' = IF isnew
                           THEN [end_value EXCEPT ![i] = IF state THEN 1 ELSE 0]
                           ELSE end_value
        /\ Toggled(o) \in Inst

\* animate_toggle(toggle_obj, state), up to line 21 of the start() it ends with
animate_toggle(o, state) ==
    /\ toggle_lookup(o, state)
    /\ Start21(Toggled(o))
    /\ UNCHANGED <<current_step, max_steps, ext, timer, on_complete, tmp, value, dirty,
                   pop, frames, completions, cb_calls>>

\* One recipe called again and again on two targets while the timers tick
NextToggle ==
    \/ \E o \in ToggleTargets : \E state \in BOOLEAN : animate_toggle(o, state)
    \/ StartStep
    \/ TimerStep

SpecToggle == Init /\ [][NextToggle]_vars

\* an instance start() was never called on (or that was stopped before its
\* first tick)
Fresh(i) == ~animating[i] /\ current_step[i] = 0 /\ timer[i] = None

\* animate_toggle(toggle_obj, state) with its start() run without interruption
AnimateToggle(o, state) ==
    /\ toggle_lookup(o, state)
    /\ StartWhole(Toggled(o))
    /\ UNCHANGED <<max_steps, ext, on_complete, tmp, value, dirty, pop, cb_calls>>

\* MicroAnimations.stop_animation(obj) with its stop() run without interruption:
\* of the ten recipe keys of obj only the toggle key can be registered here
MicroStopAnimation(o) ==
    /\ CallerIdle
    /\ toggle_name(o) \in DOMAIN animations
    /\ animations[toggle_name(o)] \in Inst
    /\ StopWhole(animations[toggle_name(o)])
    /\ UNCHANGED <<current_step, config, ext, on_complete, tmp, value, dirty, animations,
                   pop, starts, restarted, frames, completions, cb_calls>>

\* Two UI elements toggled and stopped, every handler one step
NextPair ==
    \/ \E o \in ToggleTargets : \E state \in BOOLEAN : AnimateToggle(o, state)
    \/ \E o \in ToggleTargets : MicroStopAnimation(o)
    \/ \E s \in Slots : AdvanceWhole(s)

SpecPair == Init /\ [][NextPair]_vars

\* --------------------------------------------------------- PopOutAnimation
\* PopOutAnimation.start (lines 152-166) run without interruption:
\* create_animations() at the first call (FadeAnimation 1.0 -> 0.0,
\* ScaleAnimation, fade_animation.on_complete rebound to completion_wrapper),
\* opacity and scale set to 1.0, then fade_animation.start() and
\* scale_animation.start()
PopOutStart ==
    LET create == pop.fade_animation = NoInst \/ pop.scale_animation = NoInst
        f == "pfade"
        sc == "pscale"
        n1 == NewSlot
        n2 == CHOOSE s \in FreeSlots \ {n1} : \A r \in FreeSlots \ {n1} : s <= r
        dropped == {h \in {timer[f], timer[sc]} : Unstarted(h)}
    IN  /\ CallerIdle
        /\ starts < MaxStarts
        /\ starts' = starts + 1
        /\ Cardinality(FreeSlots) >= 2
        /\ pop' = IF create THEN [fade_animation |-> f, scale_animation |-> sc] ELSE pop
        /\ start_value' = IF create THEN [start_value EXCEPT ![f] = 1] ELSE start_value
        /\ end_value' = IF create THEN [end_value EXCEPT ![f] = 0] ELSE end_value
        /\ on_complete' = IF create
                             THEN [on_complete EXCEPT ![f] = "completion_wrapper"]
                             ELSE on_complete
        /\ value' = [x \in DOMAIN value |->
                        IF x \in {<<"popup", "opacity">>, <<"popup", "scale">>}
                            THEN Frac(1, 1) ELSE value[x]]
        /\ dirty' = IF hasattr("popup", "opacity") \/ hasattr("popup", "scale")
                       THEN dirty \cup {"popup"} ELSE dirty
        /\ animating' = [animating EXCEPT ![f] = TRUE, ![sc] = TRUE]
        /\ current_step' = [current_step EXCEPT ![f] = 0, ![sc] = 0]
        /\ timer' = [timer EXCEPT ![f] = n1, ![sc] = n2]
        /\ pc' = [x \in Threads |->
                    IF x \in {n1, n2} THEN "pending"
                    ELSE IF x \in dropped THEN "free" ELSE pc[x]]
        /\ self' = [x \in Threads |->
                    IF x = n1 THEN f ELSE IF x = n2 THEN sc
                    ELSE IF x \in dropped THEN NoInst ELSE self[x]]
        /\ quiesced' = [quiesced EXCEPT ![f] = FALSE, ![sc] = FALSE]
        /\ restarted' = [i \in Inst |->
                            IF i \in {f, sc}
                                THEN (IF animating[i] /\ current_step[i] > 0
                                         THEN "yes" ELSE "no")
                                ELSE restarted[i]]
        /\ frames' = [frames EXCEPT ![f] = 0, ![sc] = 0]
        /\ completions' = [completions EXCEPT ![f] = 0, ![sc] = 0]
        /\ cb_calls' = 0
        /\ UNCHANGED <<max_steps, ext, tmp, animations>>

\* A PopOutAnimation started again and again; the ticks of its fade child move
\* a statement at a time, those of its scale child as one step each
NextPop ==
    \/ PopOutStart
    \/ \E s \in Slots :
          \/ self[s] = "pscale" /\ AdvanceWhole(s)
          \/ self[s] # "pscale" /\ Fire(s)
          \/ AdvLoad(s)
          \/ AdvStore(s)
          \/ AdvTest(s)
          \/ OnComplete(s)
          \/ OnFrame(s)
          \/ SchedCheck(s)
          \/ SchedNew(s)
          \/ SchedDaemon(s)
          \/ SchedStart(s)

SpecPop == Init /\ [][NextPop]_vars

\* ------------------------------------------------------ uninterrupted runs
\* a FadeAnimation over either direction and a BlinkAnimation of 1..MaxBlink blinks
InitRun == \E bc \in 1 .. MaxBlink : \E sv \in {0, 1} : InitWith(bc, sv)

\* each instance is started once and is neither stopped nor started again
NextRun ==
    \/ \E i \in {"fade", "blink"} : Fresh(i) /\ start(i)
    \/ StartStep
    \/ TimerStep

SpecRun == InitRun /\ [][NextRun]_vars

\* the run of instance i has ended: on_complete has run and no tick is left
Completed(i) ==
    /\ ~animating[i]
    /\ current_step[i] >= max_steps[i]
    /\ PendingTimers(i) = {}
    /\ Ticking(i) = {}

\* --------------------------------------------- AnimationManager, the calls
\* the caller calls method `name` of the manager (or stop() of an object) on `key`
Call(name, key) ==
    /\ CallerIdle
    /\ ops < MaxOps
    /\ ops' = ops + 1
    /\ op' = [name |-> name, key |-> key]

\* del self.animations[name]
del(name) == [k \in DOMAIN animations \ {name} |-> animations[k]]

\* start_animation(name), lines 222-227, with the start() it calls run without
\* interruption.  A factory entry is a function: looking up .start on it
\* raises AttributeError.
StartAnimationCall(name) ==
    /\ Call("start_animation", name)
    /\ (name \in DOMAIN animations /\ animations[name] \in Inst) => starts < MaxStarts
    /\ IF name \notin DOMAIN animations
          THEN /\ ret' = "False" /\ exc' = "none"
               /\ UNCHANGED <<animating, current_step, timer, pc, self, starts,
                              quiesced, restarted, frames, completions>>
          ELSE IF animations[name] \in Inst
          THEN /\ StartWhole(animations[name])
               /\ starts' = starts + 1
               /\ ret' = "True" /\ exc' = "none"
          ELSE /\ ret' = "none" /\ exc' = "AttributeError"
               /\ UNCHANGED <<animating, current_step, timer, pc, self, starts,
                              quiesced, restarted, frames, completions>>
    /\ UNCHANGED <<config, on_complete, tmp, value, dirty, animations, pop, cb_calls,
                   popin, mpc, escaped>>

\* stop_animation(name), lines 229-234, with the stop() it calls run without
\* interruption
StopAnimationCall(name) ==
    /\ Call("stop_animation", name)
    /\ IF name \notin DOMAIN animations
          THEN /\ ret' = "False" /\ exc' = "none"
               /\ UNCHANGED <<animating, timer, pc, self, quiesced>>
          ELSE IF animations[name] \in Inst
          THEN /\ StopWhole(animations[name])
               /\ ret' = "True" /\ exc' = "none"
          ELSE /\ ret' = "none" /\ exc' = "AttributeError"
               /\ UNCHANGED <<animating, timer, pc, self, quiesced>>
    /\ UNCHANGED <<current_step, config, on_complete, tmp, value, dirty, animations, pop,
                   starts, restarted, frames, completions, cb_calls, popin, mpc, escaped>>

\* remove_animation without the test of line 243: an absent key raises KeyError
remove_unchecked(name) ==
    IF name \notin DOMAIN animations
        THEN /\ ret' = "none" /\ exc' = "KeyError"
             /\ UNCHANGED <<animating, timer, pc, self, quiesced, animations>>
        ELSE /\ StopWhole(animations[name])
             /\ animations' = del(name)
             /\ ret' = "True" /\ exc' = "none"

\* remove_animation(name), lines 241-247: on a factory entry line 244 raises
\* before line 245 deletes
remove_animation(name) ==
    IF name \notin DOMAIN animations
        THEN /\ ret' = "False" /\ exc' = "none"
             /\ UNCHANGED <<animating, timer, pc, self, quiesced, animations>>
        ELSE IF animations[name] \in Inst
        THEN /\ StopWhole(animations[name])
             /\ animations' = del(name)
             /\ ret' = "True" /\ exc' = "none"
        ELSE /\ ret' = "none" /\ exc' = "AttributeError"
             /\ UNCHANGED <<animating, timer, pc, self, quiesced, animations>>

RemoveAnimationCall(name) ==
    /\ Call("remove_animation", name)
    /\ remove_animation(name)
    /\ UNCHANGED <<current_step, config, on_complete, tmp, value, dirty, pop,
                   starts, restarted, frames, completions, cb_calls, popin, mpc, escaped>>

\* the keys of MicroAnimations.register_animations in the order it adds them
FactoryKeys ==
    <<"button_press", "toggle_on", "toggle_off", "panel_focus",
      "notification_pulse", "tab_flash">>

\* self.animations.values() iterates in insertion order: the factories, which
\* are registered when micro_animations is imported, then the key "k"
KeyOrder == SelectSeq(FactoryKeys \o <<"k">>, LAMBDA k : k \in DOMAIN animations)

\* stop() of every instance of S, each run without interruption
StopEach(S) ==
    LET H == {h \in Slots : /\ \E i \in S : timer[i] = h
                            /\ (pc[h] = "pending" \/ Unstarted(h))}
    IN  /\ animating' = [i \in Inst |-> IF i \in S THEN FALSE ELSE animating[i]]
        /\ timer' = [i \in Inst |-> IF i \in S THEN None ELSE timer[i]]
        /\ pc' = [x \in Threads |-> IF x \in H THEN "free" ELSE pc[x]]
        /\ self' = [x \in Threads |-> IF x \in H THEN NoInst ELSE self[x]]
        /\ quiesced' = [i \in Inst |-> IF i \in S THEN TRUE ELSE quiesced[i]]

\* stop_all_animations(), lines 236-239: animation.stop() for each value in
\* order; the first value that is a factory raises AttributeError and ends
\* the loop
StopAllCall ==
    LET ks == KeyOrder
        bad == {n \in 1 .. Len(ks) : animations[ks[n]] \notin Inst}
        first == IF bad = {} THEN Len(ks) + 1
                             ELSE CHOOSE n \in bad : \A m \in bad : n <= m
        stopped == {animations[ks[n]] : n \in 1 .. (first - 1)}
    IN  /\ Call("stop_all_animations", "none")
        /\ StopEach(stopped)
        /\ ret' = "none"
        /\ exc' = IF bad = {} THEN "none" ELSE "AttributeError"
        /\ UNCHANGED <<current_step, config, on_complete, tmp, value, dirty, animations,
                       pop, starts, restarted, frames, completions, cb_calls, popin, mpc, escaped>>

\* the keys the caller passes: an instance, a factory (when registered) and a
\* key nobody registers
CallKeys == {"k", "toggle_on", "absent"}

\* the global manager before or after micro_animations is imported
InitCalls ==
    \E reg \in {EmptyRegistry, register_animations} :
        InitRegistry(DefaultBlinkCount, 0, reg)

\* The manager's methods called in any order while the timers tick, every
\* handler one step
NextCalls ==
    \/ AddAnimation("k", "A")
    \/ \E key \in CallKeys : StartAnimationCall(key)
    \/ \E key \in CallKeys : StopAnimationCall(key)
    \/ \E key \in CallKeys : RemoveAnimationCall(key)
    \/ StopAllCall
    \/ \E s \in Slots : AdvanceWhole(s)

SpecCalls == InitCalls /\ [][NextCalls]_vars

\* An instance registered, started and removed while its timer threads move a
\* statement at a time
NextRemove ==
    \/ AddAnimation("k", "A")
    \/ StartAnimationCall("k")
    \/ RemoveAnimationCall("k")
    \/ TimerStep

SpecRemove == Init /\ [][NextRemove]_vars

\* ------------------------------- MicroAnimations.animate_search_navigation
\* Lines 328-334 run by two threads on one result_obj, hence on one key "k".
\* NavOf(m) is the instance thread m builds at line 332.
NavOf(m) == IF m = 1 THEN "A" ELSE "B"

Goto(m, l) == mpc' = [mpc EXCEPT ![m] = l]

\* what a step of a recipe thread leaves alone besides the instance it stops or starts
RecipeFrame == UNCHANGED <<config, on_complete, tmp, value, dirty, pop, starts, cb_calls,
                           popin, ops, op, ret, escaped>>

\* line 329: if animation_name in self.animation_manager.animations
Nav329(m) ==
    /\ mpc[m] = "idle"
    /\ Goto(m, IF "k" \in DOMAIN animations THEN "rm_243" ELSE "nav_332")
    /\ RecipeFrame
    /\ UNCHANGED <<animating, current_step, timer, pc, self, quiesced, restarted,
                   frames, completions, animations, exc>>

\* line 330, remove_animation line 243: if name in self.animations
Rm243(m) ==
    /\ mpc[m] = "rm_243"
    /\ Goto(m, IF "k" \in DOMAIN animations THEN "rm_244" ELSE "nav_332")
    /\ RecipeFrame
    /\ UNCHANGED <<animating, current_step, timer, pc, self, quiesced, restarted,
                   frames, completions, animations, exc>>

\* remove_animation line 244: self.animations[name].stop(); KeyError when the
\* other thread has deleted the entry
Rm244(m) ==
    /\ mpc[m] = "rm_244"
    /\ IF "k" \in DOMAIN animations
          THEN /\ StopWhole(animations["k"])
               /\ Goto(m, "rm_245")
               /\ UNCHANGED exc
          ELSE /\ Goto(m, "raised")
               /\ exc' = "KeyError"
               /\ UNCHANGED <<animating, timer, pc, self, quiesced>>
    /\ RecipeFrame
    /\ UNCHANGED <<current_step, restarted, frames, completions, animations>>

\* remove_animation line 245: del self.animations[name]
Rm245(m) ==
    /\ mpc[m] = "rm_245"
    /\ IF "k" \in DOMAIN animations
          THEN /\ animations' = del("k")
               /\ Goto(m, "nav_332")
               /\ UNCHANGED exc
          ELSE /\ Goto(m, "raised")
               /\ exc' = "KeyError"
               /\ UNCHANGED animations
    /\ RecipeFrame
    /\ UNCHANGED <<animating, current_step, timer, pc, self, quiesced, restarted, frames, completions>>

\* lines 332-333: nav_anim = NavigationAnimation(result_obj);
\* add_animation(animation_name, nav_anim)
Nav333(m) ==
    /\ mpc[m] = "nav_332"
    /\ add_animation("k", NavOf(m))
    /\ Goto(m, "nav_334")
    /\ RecipeFrame
    /\ UNCHANGED <<animating, current_step, timer, pc, self, quiesced, restarted,
                   frames, completions, exc>>

\* line 334: start_animation(animation_name), run without interruption: it
\* starts whatever instance the key holds now
Nav334(m) ==
    /\ mpc[m] = "nav_334"
    /\ IF "k" \in DOMAIN animations
          THEN StartWhole(animations["k"])
          ELSE UNCHANGED <<animating, current_step, timer, pc, self, quiesced,
                           restarted, frames, completions>>
    /\ Goto(m, "done")
    /\ RecipeFrame
    /\ UNCHANGED <<animations, exc>>

\* Two threads run the recipe once each while the timers tick
NextReg ==
    \/ \E m \in Mutators :
          \/ Nav329(m)
          \/ Rm243(m)
          \/ Rm244(m)
          \/ Rm245(m)
          \/ Nav333(m)
          \/ Nav334(m)
    \/ \E s \in Slots : AdvanceWhole(s)

SpecReg == Init /\ [][NextReg]_vars

\* ------------------------------------------------- callbacks that raise
\* the instances whose on_update callback can raise (pop_animation.py line 223:
\* on_update = lambda v: target_object.refresh(), on a target without refresh)
Faulty == {"A"}

\* an engine whose one scheduler dies with the callback: every pending timer
\* is lost
OnFrameRaiseStopsAll(s) ==
    LET i == self[s]
        lost == {x \in Slots : x = s \/ pc[x] = "pending"}
    IN  /\ pc[s] = "on_frame"
        /\ i \in Faulty
        /\ setattr(TargetOf(i), PropertyOf(i), FrameValue(i, current_step[i]))
        /\ redrawn(TargetOf(i))
        /\ frames' = [frames EXCEPT ![i] = @ + 1]
        /\ pc' = [x \in Threads |-> IF x \in lost THEN "free" ELSE pc[x]]
        /\ self' = [x \in Threads |-> IF x \in lost THEN NoInst ELSE self[x]]
        /\ escaped' = escaped \cup {i}
        /\ UNCHANGED <<animating, current_step, config, timer, on_complete, tmp,
                       animations, pop, starts, quiesced, restarted, cb_calls,
                       popin, mpc, ops, op, ret, exc, completions>>

\* line 56: self.on_frame() raises.  FadeAnimation.on_frame has written the
\* property (line 133) when on_update raises (line 137); _advance has no
\* handler, so the exception leaves _advance and ends the timer thread:
\* schedule_next_frame (line 57) is not reached and animating stays True.
OnFrameRaise(s) ==
    LET i == self[s]
    IN  /\ pc[s] = "on_frame"
        /\ i \in Faulty
        /\ setattr(TargetOf(i), PropertyOf(i), FrameValue(i, current_step[i]))
        /\ redrawn(TargetOf(i))
        /\ frames' = [frames EXCEPT ![i] = @ + 1]
        /\ pc' = [pc EXCEPT ![s] = "free"]
        /\ self' = [self EXCEPT ![s] = NoInst]
        /\ escaped' = escaped \cup {i}
        /\ UNCHANGED <<animating, current_step, config, timer, on_complete, tmp,
                       animations, pop, starts, quiesced, restarted, cb_calls,
                       popin, mpc, ops, op, ret, exc, completions>>

\* a step of timer thread s
Tick(s) ==
    \/ Fire(s)
    \/ AdvLoad(s)
    \/ AdvStore(s)
    \/ AdvTest(s)
    \/ OnComplete(s)
    \/ OnFrame(s)
    \/ SchedCheck(s)
    \/ SchedNew(s)
    \/ SchedDaemon(s)
    \/ SchedStart(s)

\* Two animations started once each; a callback of the first may raise
NextFail ==
    \/ \E i \in {"A", "B"} : Fresh(i) /\ start(i)
    \/ StartStep
    \/ \E s \in Slots : Tick(s)
    \/ \E s \in Slots : OnFrameRaise(s)

\* a started Timer fires when its interval has passed and every thread that
\* can run gets to run: the caller inside start() and each timer thread
FairFail ==
    /\ WF_vars(StartStep)
    /\ \A s \in Slots : WF_vars(Tick(s))

SpecFail == Init /\ [][NextFail]_vars /\ FairFail

\* ------------------------------------------------------ scheduling failures
\* line 38: step_duration = self.duration / self.max_steps raises
\* ZeroDivisionError when max_steps is 0 (BlinkAnimation with blink_count = 0,
\* line 196); the exception leaves schedule_next_frame and start()
SchedDivZero(t) ==
    /\ pc[t] = "sched_new"
    /\ max_steps[self[t]] = 0
    /\ pc' = [pc EXCEPT ![t] = Finish(t)]
    /\ self' = [self EXCEPT ![t] = NoInst]
    /\ exc' = "ZeroDivisionError"
    /\ UNCHANGED <<animating, current_step, config, timer, on_complete, tmp, value, dirty,
                   animations, pop, ghosts, popin, mpc, ops, op, ret, escaped>>

\* line 41: self.timer.start() raises RuntimeError (can't start new thread);
\* the Timer stays unstarted and self.timer keeps naming it
SchedStartFail(t) ==
    /\ pc[t] = "sched_start"
    /\ Unstarted(timer[self[t]])
    /\ pc' = [pc EXCEPT ![t] = Finish(t)]
    /\ self' = [self EXCEPT ![t] = NoInst]
    /\ exc' = "RuntimeError"
    /\ UNCHANGED <<animating, current_step, config, timer, on_complete, tmp, value, dirty,
                   animations, pop, ghosts, popin, mpc, ops, op, ret, escaped>>

\* the caller calls i.start(), line 21; nothing has been raised to it yet
StartCall(i) ==
    /\ CallerIdle
    /\ starts < MaxStarts
    /\ starts' = starts + 1
    /\ op' = [name |-> "start", key |-> i]
    /\ exc' = "none"
    /\ Start21(i)
    /\ UNCHANGED <<current_step, config, timer, on_complete, tmp, value, dirty,
                   animations, pop, frames, completions, cb_calls, popin, mpc, ops, ret, escaped>>

\* a BlinkAnimation of 0..MaxBlink blinks
InitSched == \E bc \in 0 .. MaxBlink : InitWith(bc, 0)

\* start() called (and called again) on the BlinkAnimation; computing the
\* interval or starting the thread may fail inside start()
NextSched ==
    \/ StartCall("blink")
    \/ Start22
    \/ SchedCheck(Caller)
    \/ pc[Caller] = "sched_new" /\ max_steps[self[Caller]] # 0 /\ SchedNew(Caller)
    \/ SchedDivZero(Caller)
    \/ SchedDaemon(Caller)
    \/ SchedStart(Caller)
    \/ SchedStartFail(Caller)
    \/ TimerStep

SpecSched == InitSched /\ [][NextSched]_vars

\* ------------------------------------------------------- stop() when idle
\* PopInAnimation.start (lines 62-76) run without interruption:
\* create_animations() at the first call (FadeAnimation 0.0 -> 1.0 and a
\* ScaleAnimation), opacity set to 0.0 and scale to 1.1, then
\* fade_animation.start() and scale_animation.start().  anim, val and reg are
\* the animating flags, the attributes and the registry the caller of start()
\* has left.
PopInStartWith(anim, val, reg) ==
    LET create == popin.fade_animation = NoInst \/ popin.scale_animation = NoInst
        f == "ifade"
        sc == "iscale"
        n1 == NewSlot
        n2 == CHOOSE s \in FreeSlots \ {n1} : \A r \in FreeSlots \ {n1} : s <= r
        dropped == {h \in {timer[f], timer[sc]} : Unstarted(h)}
    IN  /\ CallerIdle
        /\ starts < MaxStarts
        /\ starts' = starts + 1
        /\ Cardinality(FreeSlots) >= 2
        /\ popin' = IF create
                        THEN [popin EXCEPT !.fade_animation = f, !.scale_animation = sc]
                        ELSE popin
        /\ start_value' = IF create THEN [start_value EXCEPT ![f] = 0] ELSE start_value
        /\ end_value' = IF create THEN [end_value EXCEPT ![f] = 1] ELSE end_value
        /\ value' = [x \in DOMAIN val |->
                        IF x = <<"tooltip", "opacity">> THEN Frac(0, 1)
                        ELSE IF x = <<"tooltip", "scale">> THEN Frac(11, 10)
                        ELSE val[x]]
        /\ dirty' = IF hasattr("tooltip", "opacity") \/ hasattr("tooltip", "scale")
                       THEN dirty \cup {"tooltip"} ELSE dirty
        /\ animating' = [anim EXCEPT ![f] = TRUE, ![sc] = TRUE]
        /\ animations' = reg
        /\ current_step' = [current_step EXCEPT ![f] = 0, ![sc] = 0]
        /\ timer' = [timer EXCEPT ![f] = n1, ![sc] = n2]
        /\ pc' = [x \in Threads |->
                    IF x \in {n1, n2} THEN "pending"
                    ELSE IF x \in dropped THEN "free" ELSE pc[x]]
        /\ self' = [x \in Threads |->
                    IF x = n1 THEN f ELSE IF x = n2 THEN sc
                    ELSE IF x \in dropped THEN NoInst ELSE self[x]]
        /\ quiesced' = [quiesced EXCEPT ![f] = FALSE, ![sc] = FALSE]
        /\ restarted' = [i \in Inst |->
                            IF i \in {f, sc}
                                THEN (IF animating[i] /\ current_step[i] > 0
                                         THEN "yes" ELSE "no")
                                ELSE restarted[i]]
        /\ frames' = [frames EXCEPT ![f] = 0, ![sc] = 0]
        /\ completions' = [completions EXCEPT ![f] = 0, ![sc] = 0]
        /\ UNCHANGED <<max_steps, on_complete, tmp, pop, cb_calls,
                       mpc, ops, op, ret, exc, escaped>>

\* the caller calls PopInAnimation.start()
PopInStart == PopInStartWith(animating, value, animations)

\* the caller calls i.start(), run without interruption
StartNow(i) ==
    /\ CallerIdle
    /\ starts < MaxStarts
    /\ starts' = starts + 1
    /\ StartWhole(i)
    /\ UNCHANGED <<config, ext, on_complete, tmp, value, dirty, animations, pop, cb_calls>>

\* the child animations a composite has created
Children(p) == {p.fade_animation, p.scale_animation} \ {NoInst}

\* the Animation instances behind the object named o
Members(o) ==
    CASE o = "popin" -> Children(popin)
      [] o = "popout" -> Children(pop)
      [] OTHER -> {o} \cap Inst

\* stop() without the test of line 29: None.cancel() raises AttributeError
StopCallUnguarded(i) ==
    /\ Call("stop", i)
    /\ StopWhole(i)
    /\ ret' = "none"
    /\ exc' = IF timer[i] = None THEN "AttributeError" ELSE "none"
    /\ UNCHANGED <<current_step, config, on_complete, tmp, value, dirty, animations, pop,
                   starts, restarted, frames, completions, cb_calls, popin, mpc, escaped>>

\* a stop() that finishes the animation: it writes the end value and calls
\* on_complete
StopCallCompletes(i) ==
    /\ Call("stop", i)
    /\ StopWhole(i)
    /\ setattr(TargetOf(i), PropertyOf(i), Frac(end_value[i], 1))
    /\ completions' = [completions EXCEPT ![i] = @ + 1]
    /\ ret' = "none"
    /\ exc' = "none"
    /\ UNCHANGED <<current_step, config, on_complete, tmp, dirty, animations, pop,
                   starts, restarted, frames, cb_calls, popin, mpc, escaped>>

\* the caller calls i.stop() (AnimationState.stop, lines 26-31)
StopCall(i) ==
    /\ Call("stop", i)
    /\ StopWhole(i)
    /\ ret' = "none"
    /\ exc' = "none"
    /\ UNCHANGED <<current_step, config, on_complete, tmp, value, dirty, animations, pop,
                   starts, restarted, frames, completions, cb_calls, popin, mpc, escaped>>

\* PopInAnimation.stop (lines 78-84) and PopOutAnimation.stop (lines 168-174):
\* under the lock, stop() of each child that exists
CompositeStopCall(o) ==
    /\ Call("stop", o)
    /\ StopEach(Members(o))
    /\ ret' = "none"
    /\ exc' = "none"
    /\ UNCHANGED <<current_step, config, on_complete, tmp, value, dirty, animations, pop,
                   starts, restarted, frames, completions, cb_calls, popin, mpc, escaped>>

\* every object is at rest: nothing is animating and no timer is pending
AllAtRest == \A i \in Inst : ~animating[i] /\ PendingTimers(i) = {}

\* the objects other than o have never been started
OthersNeverRan(o) ==
    /\ o # "a" => Fresh("a")
    /\ o # "popin" => Children(popin) = {}
    /\ o # "popout" => Children(pop) = {}

\* One of an Animation, a PopInAnimation and a PopOutAnimation is started
\* (again when its previous run has ended or was stopped) and each of the
\* three is stopped at any time while the timers tick, every handler one step
NextStop ==
    \/ AllAtRest /\ OthersNeverRan("a") /\ StartNow("a")
    \/ AllAtRest /\ OthersNeverRan("popin") /\ PopInStart
    \/ AllAtRest /\ OthersNeverRan("popout") /\ PopOutStart
    \/ StopCall("a")
    \/ \E o \in {"popin", "popout"} : CompositeStopCall(o)
    \/ \E s \in Slots : AdvanceWhole(s)

SpecStop == Init /\ [][NextStop]_vars

\* ------------------------------------------ targets that lack an attribute
\* the attributes the animations of this section write
Animated ==
    {<<"obj", "opacity">>, <<"obj", "visible">>, <<"panel", "position">>,
     <<"popup", "opacity">>, <<"popup", "scale">>,
     <<"tooltip", "opacity">>, <<"tooltip", "scale">>}

\* the targets without the attributes of M
Without(M) == [x \in DOMAIN InitValue \ M |-> InitValue[x]]

\* any of the animated attributes may be missing from its target
InitMissing ==
    \E M \in SUBSET Animated :
        InitObjects(DefaultBlinkCount, 0, register_animations, Without(M),
                    DefaultStartScale)

\* One of a FadeAnimation, a BlinkAnimation, a SlideAnimation, a
\* PopInAnimation and a PopOutAnimation is started once and runs, every
\* handler one step
NextMissing ==
    \/ \E i \in {"fade", "blink", "slide"} : starts = 0 /\ StartNow(i)
    \/ starts = 0 /\ PopInStart
    \/ starts = 0 /\ PopOutStart
    \/ \E s \in Slots : AdvanceWhole(s)

\* a started Timer fires when its interval has passed
FairTimers == \A s \in Slots : WF_vars(AdvanceWhole(s))

SpecMissing == InitMissing /\ [][NextMissing]_vars /\ FairTimers

\* ----------------------------------------------------------- PopInAnimation
\* the start_scale a PopInAnimation is built with: the default 1.1, or the
\* 1.05 of create_tooltip_pop_in (pop_animation.py line 195) and of
\* PopupAppearWrapper (micro_animations.py line 371)
StartScales == {DefaultStartScale, Frac(21, 20)}

InitPopIn ==
    \E ss \in StartScales :
        InitObjects(DefaultBlinkCount, 0, register_animations, InitValue, ss)

\* A PopInAnimation started, stopped and started again while its children
\* tick, every handler one step
NextPopIn ==
    \/ PopInStart
    \/ CompositeStopCall("popin")
    \/ \E s \in Slots : AdvanceWhole(s)

SpecPopIn == InitPopIn /\ [][NextPopIn]_vars

\* ------------------------------------------------------ get_eased_progress
\* names that get_eased_progress does not test for: NavigationAnimation asks
\* for "elastic_out" (micro_animations.py line 297), PopupAppearWrapper
\* configures 'ease_out_cubic' (line 374)
UnknownKinds == {"elastic_out", "ease_out_cubic"}

\* the caller calls i.get_eased_progress(kind)
EasedCall(i, kind) ==
    /\ CallerIdle
    /\ ops < MaxOps
    /\ ops' = ops + 1
    /\ op' = [name |-> "get_eased_progress", key |-> kind, on |-> i]
    /\ ret' = get_eased_progress(kind, get_progress(current_step[i], max_steps[i]))
    /\ exc' = "none"
    /\ UNCHANGED <<animating, current_step, config, timer, on_complete, pc, self, tmp,
                   value, animations, pop, ghosts, popin, mpc, escaped, dirty>>

\* Two animations of 3 and of 10 steps run once each, and the eased progress
\* is read at any step under any name
NextEase ==
    \/ \E i \in {"a", "fade"} : Fresh(i) /\ StartNow(i)
    \/ \E s \in Slots : AdvanceWhole(s)
    \/ \E i \in {"a", "fade"} : \E kind \in EasingKinds \cup UnknownKinds :
          EasedCall(i, kind)

SpecEase == Init /\ [][NextEase]_vars

\* ------------------------------------------- the search-result recipes
\* animation_name = f"search_nav_{id(result_obj)}" / f"search_result_{id(result_obj)}"
search_nav_name(o) == "search_nav_" \o id(o)
search_result_name(o) == "search_result_" \o id(o)

\* remove_animation(name) of the instance old followed by add_animation(name,
\* new) and start_animation(name), each run without interruption
ReplaceAndStart(name, old, new) ==
    LET h == timer[old]
        cancelled == h \in Slots /\ (pc[h] = "pending" \/ Unstarted(h))
        n == NewSlot
    IN  /\ FreeSlots # {}
        /\ add_animation(name, new)
        /\ animating' = [animating EXCEPT ![old] = FALSE, ![new] = TRUE]
        /\ current_step' = [current_step EXCEPT ![new] = 0]
        /\ timer' = [timer EXCEPT ![old] = None, ![new] = n]
        /\ pc' = [x \in Threads |->
                    IF x = n THEN "pending"
                    ELSE IF cancelled /\ x = h THEN "free" ELSE pc[x]]
        /\ self' = [x \in Threads |->
                    IF x = n THEN new
                    ELSE IF cancelled /\ x = h THEN NoInst ELSE self[x]]
        /\ quiesced' = [quiesced EXCEPT ![old] = TRUE, ![new] = FALSE]
        /\ restarted' = [restarted EXCEPT ![new] = "no"]
        /\ frames' = [frames EXCEPT ![new] = 0]
        /\ completions' = [completions EXCEPT ![new] = 0]

\* animate_search_navigation(result_obj), lines 283-334, run without
\* interruption.  Line 332 builds a new NavigationAnimation at every call; the
\* instance "nav" is the one of the first call for the target, when line 329
\* finds no entry.
AnimateSearchNavigation(o) ==
    /\ Call("animate_search_navigation", o)
    /\ search_nav_name(o) \notin DOMAIN animations
    /\ Fresh("nav")
    /\ add_animation(search_nav_name(o), "nav")
    /\ StartWhole("nav")
    /\ ret' = "none"
    /\ exc' = "none"
    /\ UNCHANGED <<config, on_complete, tmp, value, dirty, pop, starts, cb_calls,
                   popin, mpc, escaped>>

\* animate_search_result(result_obj, is_current), lines 220-281, run without
\* interruption.  is_current: the registered instance, if any, is removed
\* (lines 253-254) and a new CurrentResultAnimation is added and started
\* (lines 256-258).  Otherwise a ResultFadeInAnimation is added and started
\* only when the key is not registered (lines 278-281).  "cur" and "res" are
\* the first instance of each class built for the target.
AnimateSearchResult(o, is_current) ==
    LET name == search_result_name(o)
        held == name \in DOMAIN animations
    IN  /\ Call("animate_search_result", IF is_current THEN "True" ELSE "False")
        /\ ret' = "none"
        /\ exc' = "none"
        /\ IF is_current
              THEN /\ Fresh("cur")
                   /\ IF held
                         THEN ReplaceAndStart(name, animations[name], "cur")
                         ELSE add_animation(name, "cur") /\ StartWhole("cur")
              ELSE IF ~held
              THEN /\ Fresh("res")
                   /\ add_animation(name, "res")
                   /\ StartWhole("res")
              ELSE UNCHANGED <<animations, animating, current_step, timer, pc, self,
                               quiesced, restarted, frames, completions>>
        /\ UNCHANGED <<config, on_complete, tmp, value, dirty, pop, starts, cb_calls,
                       popin, mpc, escaped>>

\* EditorState._animate_search_navigation (editor_core.py lines 1018-1057):
\* the new current result gets the navigation animation, every other result
\* animate_search_result(is_current=False); a result that is being pulsed as
\* the current one has had animate_search_result(is_current=True).  The
\* timers tick in between, every handler one step.
NextSearch ==
    \/ AnimateSearchNavigation("result")
    \/ \E is_current \in BOOLEAN : AnimateSearchResult("other", is_current)
    \/ \E s \in Slots : AdvanceWhole(s)

SpecSearch == Init /\ [][NextSearch]_vars /\ FairTimers

\* ------------------------------------------------------ a run from start to end
\* A FadeAnimation and a BlinkAnimation are started once each and are neither
\* stopped nor started again; the caller and the timer threads move a
\* statement at a time
NextOnce ==
    \/ \E i \in {"A", "blink"} : Fresh(i) /\ start(i)
    \/ StartStep
    \/ \E s \in Slots : Tick(s)

SpecOnce == Init /\ [][NextOnce]_vars /\ FairFail

\* ---------------------------------------------------------- one run, stopped
\* One Animation instance started once and stopped at any moment, statement by
\* statement, while its timers tick
NextIdle ==
    \/ starts = 0 /\ start("a")
    \/ stop("a")
    \/ StartStep
    \/ StopStep
    \/ TimerStep

SpecIdle == Init /\ [][NextIdle]_vars

\* ------------------------------------------------------------- cursor blink
cursor_blink_name(o) == "cursor_blink_" \o id(o)

\* animate_cursor_blink(cursor_obj), lines 188-218, run without interruption:
\* the BlinkAnimation is built and registered when the key is not held (lines
\* 213-215) and start_animation(name) starts it (line 218).  Its __init__
\* keeps the max_steps of AnimationState and sets self.repeat = True, which
\* no code reads.
AnimateCursorBlink(o) ==
    LET name == cursor_blink_name(o)
    IN  /\ Call("animate_cursor_blink", o)
        /\ IF name \in DOMAIN animations
              THEN UNCHANGED animations
              ELSE add_animation(name, "cblink")
        /\ StartWhole("cblink")
        /\ ret' = "none"
        /\ exc' = "none"
        /\ UNCHANGED <<config, on_complete, tmp, value, dirty, pop, starts, cb_calls,
                       popin, mpc, escaped>>

\* The cursor is set blinking, and is never stopped, while the timers tick
NextCursor ==
    \/ AnimateCursorBlink("cursor")
    \/ \E s \in Slots : AdvanceWhole(s)

SpecCursor == Init /\ [][NextCursor]_vars /\ FairTimers

\* ------------------------------------------------- pop-in behind a wrapper
\* the tooltips object has, besides tooltip_opacity and tooltip_scale, the
\* flag `animating` (editor_core.py lines 1883-1886); False is 0, True is 1
TooltipFlag == <<"tooltip", "animating">>

WrapValue ==
    [x \in DOMAIN InitValue \cup {TooltipFlag} |->
        IF x = TooltipFlag THEN Frac(0, 1) ELSE InitValue[x]]

\* PopInAnimation(..., start_scale=1.05, ...) of line 2109
InitWrap ==
    InitObjects(DefaultBlinkCount, 0, register_animations, WrapValue, Frac(21, 20))

tooltip_pop_name == "tooltip_pop_key"

\* the branch of lines 2093-2144, run without interruption: taken when the
\* tooltip is known and tooltips.animating is False.  The flag is set, the
\* PopInAnimation and its PopAnimationWrapper are built and registered when
\* the key is not held, and start_animation(name) calls the wrapper's start():
\* self.animating = True; self.pop_animation.start().  The wrapper schedules no
\* timer of its own.
TooltipPopStart ==
    /\ FracEq(value[TooltipFlag], Frac(0, 1))
    /\ PopInStartWith([animating EXCEPT !["wrap"] = TRUE],
                      [value EXCEPT ![TooltipFlag] = Frac(1, 1)],
                      [k \in DOMAIN animations \cup {tooltip_pop_name} |->
                          IF k = tooltip_pop_name THEN "wrap" ELSE animations[k]])

\* The tooltip pops in behind its wrapper and is never stopped; the children's
\* timers tick statement by statement
NextWrap ==
    \/ TooltipPopStart
    \/ \E s \in Slots : Tick(s)

SpecWrap == InitWrap /\ [][NextWrap]_vars /\ FairFail

\* ------------------------------------------------------- rebuilding recipes
\* animate_search_result called on one target, fading it in and then pulsing
\* it as the current result, while the timer threads run statement by
\* statement
NextRebuild ==
    \/ \E is_current \in BOOLEAN : AnimateSearchResult("other", is_current)
    \/ \E s \in Slots : Tick(s)

SpecRebuild == Init /\ [][NextRebuild]_vars

\* ------------------------------------------------------- the search panel
\* EditorState.__init__ (editor_core.py lines 100-105, 151): the search UI is
\* hidden, the search state empty, search_panel_opacity = 1.0; the ToggleState
\* of line 883 has highlight 0.0
ShowSearchUI == <<"editor", "show_search_ui">>
PanelOpacity == <<"editor", "search_panel_opacity">>
SearchState == {<<"editor", "search_query">>, <<"editor", "search_results">>}

PanelValue ==
    [x \in DOMAIN InitValue
           \cup {ShowSearchUI, PanelOpacity, <<"toggle_state", "highlight">>}
           \cup SearchState |->
        IF x = PanelOpacity THEN Frac(1, 1)
        ELSE IF x \in DOMAIN InitValue THEN InitValue[x]
        ELSE Frac(0, 1)]

InitPanel ==
    InitObjects(DefaultBlinkCount, 0, register_animations, PanelValue,
                DefaultStartScale)

\* no timer of instance i is pending and no tick of it is running: the object
\* can act no more, and a newly built object of its class takes its place
Spent(i) == PendingTimers(i) = {} /\ Ticking(i) = {}

\* start() of the instances i and j, one after the other, run without
\* interruption; anim are the animating flags the caller has left
StartPair(i, j, anim) ==
    LET n1 == NewSlot
        n2 == CHOOSE s \in FreeSlots \ {n1} : \A r \in FreeSlots \ {n1} : s <= r
        dropped == {h \in {timer[i], timer[j]} : Unstarted(h)}
    IN  /\ Cardinality(FreeSlots) >= 2
        /\ animating' = [anim EXCEPT ![i] = TRUE, ![j] = TRUE]
        /\ current_step' = [current_step EXCEPT ![i] = 0, ![j] = 0]
        /\ timer' = [timer EXCEPT ![i] = n1, ![j] = n2]
        /\ pc' = [x \in Threads |->
                    IF x \in {n1, n2} THEN "pending"
                    ELSE IF x \in dropped THEN "free" ELSE pc[x]]
        /\ self' = [x \in Threads |->
                    IF x = n1 THEN i ELSE IF x = n2 THEN j
                    ELSE IF x \in dropped THEN NoInst ELSE self[x]]
        /\ quiesced' = [quiesced EXCEPT ![i] = FALSE, ![j] = FALSE]
        /\ restarted' = [x \in Inst |->
                            IF x \in {i, j}
                                THEN (IF animating[x] /\ current_step[x] > 0
                                         THEN "yes" ELSE "no")
                                ELSE restarted[x]]
        /\ frames' = [frames EXCEPT ![i] = 0, ![j] = 0]
        /\ completions' = [completions EXCEPT ![i] = 0, ![j] = 0]

\* toggle_search_ui(), lines 870-941 with enable_animations, run without
\* interruption: show_search_ui is negated; animate_toggle on the panel's
\* ToggleState (the instance is built at the first call only); then, when the
\* UI is now shown, search_panel_opacity = 0.0 and a new PanelFadeIn is added
\* under "search_panel_fade" and started, otherwise search_panel_opacity = 1.0
\* and a new PanelFadeOut is added under "search_panel_fade_out" and started.
\* add_animation replaces the entry of the key and stops nothing.
toggle_search_ui ==
    LET show == value[ShowSearchUI].num = 0
        new == IF show THEN "fin" ELSE "fout"
        key == IF show THEN "search_panel_fade" ELSE "search_panel_fade_out"
        name == toggle_name("toggle_state")
        isnew == name \notin DOMAIN animations
        tog == IF isnew THEN "ptog" ELSE animations[name]
    IN  /\ Call("toggle_search_ui", IF show THEN "True" ELSE "False")
        /\ Spent(new)
        /\ (IF show THEN "toggle_on" ELSE "toggle_off") \in DOMAIN animations
        /\ animations' = [k \in DOMAIN animations \cup {name, key} |->
                             IF k = key THEN new
                             ELSE IF k = name THEN tog ELSE animations[k]]
        /\ start_value' = IF isnew
                             THEN [start_value EXCEPT ![tog] = IF show THEN 0 ELSE 1]
                             ELSE start_value
        /\ end_value' = IF isnew
                           THEN [end_value EXCEPT ![tog] = IF show THEN 1 ELSE 0]
                           ELSE end_value
        /\ value' = [value EXCEPT ![ShowSearchUI] = Frac(IF show THEN 1 ELSE 0, 1),
                                  ![PanelOpacity] = Frac(IF show THEN 0 ELSE 1, 1)]
        /\ dirty' = dirty \cup {"editor"}
        /\ StartPair(tog, new, [animating EXCEPT ![new] = FALSE])
        /\ ret' = "none"
        /\ exc' = "none"
        /\ UNCHANGED <<max_steps, on_complete, tmp, pop, starts, cb_calls, popin,
                       mpc, escaped>>

\* perform_search(query), lines 943-974, with a query that has a match:
\* search_query = query, search_results = [the match]
perform_search ==
    /\ CallerIdle
    /\ \E x \in SearchState : value[x].num = 0
    /\ value' = [x \in DOMAIN value |-> IF x \in SearchState THEN Frac(1, 1) ELSE value[x]]
    /\ UNCHANGED <<animating, current_step, config, timer, on_complete, pc, self, tmp,
                   dirty, animations, pop, ghosts, ext>>

\* The search UI is toggled and searched in while the timers tick, every
\* handler one step
NextPanel ==
    \/ toggle_search_ui
    \/ perform_search
    \/ \E s \in Slots : AdvanceWhole(s)

SpecPanel == InitPanel /\ [][NextPanel]_vars

\* ------------------------------------------------------------------ claims
\* a timer thread executes on_frame of instance i in this step
FrameStep(s, i) == pc[s] = "on_frame" /\ self[s] = i /\ pc'[s] # "on_frame"

\* SchedNew never waits for a slot: the pool is large enough for MaxStarts
SlotsSuffice == \A t \in Threads : pc[t] = "sched_new" => FreeSlots # {}

\* C1: after any sequence of start(), stop() and timer firings at most one
\* pending timer (scheduled, not fired, not cancelled) exists per instance.
C1_AtMostOnePendingTimer == \A i \in Inst : Cardinality(PendingTimers(i)) <= 1

\* C2: once stop() has returned on an instance, on_frame is not invoked again
\* (and the target is not written) by that instance until the next start().
C2_NoFrameAfterStop ==
    [][\A s \in Slots : \A i \in Inst : FrameStep(s, i) => ~quiesced[i]]_vars

\* C8: start() on an instance animating at a step k > 0 resets current_step to
\* 0, and the frames after the reset observe current_step = 1, 2, 3, ... in
\* order: the n-th frame observes n.
C8_RestartFramesInOrder ==
    [][/\ \A i \in Inst : restarted[i] = "resetting" /\ restarted'[i] = "yes"
                              => current_step'[i] = 0
       /\ \A s \in Slots : \A i \in Inst :
             FrameStep(s, i) /\ restarted[i] = "yes"
                 => current_step[i] = frames[i] + 1]_vars

\* C9: between two start() calls current_step never decreases; get_progress()
\* lies in [0, 1] and is exactly 1 when current_step = max_steps.
C9_ProgressMonotone ==
    /\ [][\A i \in Inst : current_step'[i] < current_step[i]
              => pc[Caller] = "start_22" /\ self[Caller] = i]_vars
    /\ [](\A i \in Inst :
            LET g == get_progress(current_step[i], max_steps[i])
            IN  /\ FracLe(Frac(0, 1), g) /\ FracLe(g, Frac(1, 1))
                /\ (current_step[i] = max_steps[i] => FracEq(g, Frac(1, 1))))

\* C6: a FadeAnimation that runs uninterrupted to completion leaves the target's
\* property equal to end_value, and animating = False.
C6_FadeEndsAtEndValue ==
    Completed("fade") =>
        /\ FracEq(value[<<"obj", "opacity">>], Frac(end_value["fade"], 1))
        /\ ~animating["fade"]

\* the alternating sequence 1, 0, 1, 0, ...: its k-th value
Alternating(k) == IF k % 2 = 1 THEN Frac(1, 1) ELSE Frac(0, 1)

\* C7: an uninterrupted BlinkAnimation with blink_count = n writes 1, 0, 1, 0,
\* ... one value per tick (its k-th write is the k-th value of the sequence),
\* 2n values in all, and completes on tick 2n.
C7_BlinkSequence ==
    /\ [][\A s \in Slots : FrameStep(s, "blink")
             => value'[<<"obj", "visible">>] = Alternating(frames["blink"] + 1)]_vars
    /\ [](Completed("blink") =>
             /\ frames["blink"] = max_steps["blink"]
             /\ current_step["blink"] = max_steps["blink"])

\* C3: add_animation on a key that holds an instance stops that instance before
\* replacing it: an instance the registry no longer holds is not animating and
\* has no pending timer, so only the registered instance ticks.
C3_ReplacedIsStopped ==
    \A i \in {"A", "B"} :
        i \notin Registered => ~animating[i] /\ PendingTimers(i) = {}

\* the timer chains of instance i that are alive: a pending timer or a running tick
LiveChains(i) == PendingTimers(i) \cup Ticking(i)

\* C5: after any number of calls of a recipe on a target there is at most one
\* live timer chain for the (recipe, target) pair.
C5_OneChainPerTarget ==
    \A o \in ToggleTargets :
        toggle_name(o) \in DOMAIN animations
            => Cardinality(LiveChains(animations[toggle_name(o)])) <= 1

\* a thread bound to instance i takes a step
StepOf(i) ==
    \E t \in Threads : (self[t] = i \/ self'[t] = i) /\ pc'[t] # pc[t]

C4_CallbackOncePerCycle ==
    /\ cb_calls <= 1
    /\ (pop.fade_animation # NoInst /\ CallerIdle /\ Completed("pfade")
            => cb_calls = 1)

\* C12: frame callbacks of one instance never overlap: at no time are two
\* executions of _advance of the same instance in progress.
C12_TicksNeverOverlap == \A i \in Inst : Cardinality(Ticking(i)) <= 1

\* the caller's call `name` returns (or raises) in this step
Returns(name) == ops' = ops + 1 /\ op'.name = name

\* C13: after stop_all_animations() returns, every instance registered in the
\* manager has animating = False and no pending timer, whatever else the
\* registry holds.
C13_StopAllStopsEveryInstance ==
    [][Returns("stop_all_animations") =>
          \A i \in Registered :
              /\ ~animating'[i]
              /\ {s \in Slots : pc'[s] = "pending" /\ self'[s] = i} = {}]_vars

\* C14: start_animation(key) returns False exactly when key is absent; on an
\* instance it calls start() and returns True; on a factory it starts nothing,
\* creates no timer and raises no error.
C14_StartAnimationResult ==
    [][Returns("start_animation") =>
          LET key == op'.key
              present == key \in DOMAIN animations
          IN  /\ (ret' = "False") <=> ~present
              /\ (present /\ animations[key] \in Inst) =>
                     /\ ret' = "True"
                     /\ animating'[animations[key]]
                     /\ current_step'[animations[key]] = 0
              /\ (present /\ animations[key] \notin Inst) =>
                     /\ exc' = "none"
                     /\ UNCHANGED <<animating, current_step, timer, pc, self>>]_vars

\* C16: stop_animation(key) and remove_animation(key) on an absent key return
\* False, raise nothing, and leave the registry and the state of every
\* animation unchanged.
C16_AbsentKeyIsNoop ==
    [][(/\ Returns("stop_animation") \/ Returns("remove_animation")
        /\ op'.key \notin DOMAIN animations) =>
          /\ ret' = "False"
          /\ exc' = "none"
          /\ UNCHANGED <<animations, animating, current_step, timer, value, pc, self>>]_vars

\* remove_animation of an absent key has returned False while the instance
\* registered under "k" is running
C16_Witness ==
    /\ op = [name |-> "remove_animation", key |-> "absent"]
    /\ ret = "False"
    /\ "k" \in DOMAIN animations
    /\ animating[animations["k"]]
    /\ current_step[animations["k"]] > 0
    /\ PendingTimers(animations["k"]) # {}

\* C15: remove_animation(key) on a key holding an instance stops the instance,
\* deletes the entry and returns True; afterwards the removed instance never
\* runs a frame (never writes its target) again, and start_animation(key)
\* returns False.
C15_RemovedNeverTicks ==
    [][/\ (/\ Returns("remove_animation")
           /\ op'.key \in DOMAIN animations
           /\ animations[op'.key] \in Inst) =>
              /\ ret' = "True"
              /\ op'.key \notin DOMAIN animations'
              /\ ~animating'[animations[op'.key]]
       /\ \A s \in Slots : \A i \in Inst :
              FrameStep(s, i) => ~(quiesced[i] /\ i \notin Registered)
       /\ (Returns("start_animation") /\ op'.key \notin DOMAIN animations) =>
              ret' = "False"]_vars

\* C11: registry mutations issued by two threads on one key are serialized:
\* once both recipe calls have ended, the outcome is that of one of the two
\* sequential orders: no call has raised, the key holds the instance of the
\* call that came last, the other instance has been stopped (no started
\* animation is left ticking while unreachable from the registry), and the
\* registered instance has one timer chain.
C11_RegistrySerialized ==
    (\A m \in Mutators : mpc[m] \in {"done", "raised"}) =>
        /\ exc = "none"
        /\ "k" \in DOMAIN animations
        /\ \A i \in {"A", "B"} : i \notin Registered => ~animating[i]
        /\ \A i \in Registered : Cardinality(LiveChains(i)) <= 1

\* C17: when a callback of one animation raises during a tick, every other
\* running animation keeps ticking: the step in which the exception leaves the
\* tick changes nothing of another instance (its flag, step, timer handle and
\* pending timers), and under fair timer firing the other animation still
\* reaches completion.
C17_OthersKeepTicking ==
    /\ [][escaped' # escaped =>
             \A j \in Inst \ escaped' :
                 /\ animating'[j] = animating[j]
                 /\ current_step'[j] = current_step[j]
                 /\ timer'[j] = timer[j]
                 /\ \A s \in Slots : self[s] = j => pc'[s] = pc[s] /\ self'[s] = j]_vars
    /\ (animating["B"] ~> Completed("B"))

\* a callback of A has raised (A is stuck animating) and B has completed
C17_Witness ==
    /\ "A" \in escaped
    /\ animating["A"]
    /\ Completed("B")
    /\ frames["B"] > 0

\* C18: an exception raised inside on_frame, on_update or on_complete is
\* caught at the scheduling boundary: no exception ever leaves _advance.
C18_NoExceptionLeavesTick == escaped = {}

\* C19: if scheduling the first frame fails inside start() (the interval
\* cannot be computed or the timer cannot be started), start() leaves the
\* instance with animating = False and no pending timer.
C19_FailedStartLeavesIdle ==
    (CallerIdle /\ op.name = "start" /\ exc # "none") =>
        /\ ~animating[op.key]
        /\ PendingTimers(op.key) = {}

\* C20: stop() on an Animation, a PopInAnimation or a PopOutAnimation that is
\* not animating (never started, stopped or completed) raises nothing and is
\* a no-op: animating stays False, current_step and the targets' properties
\* are unchanged; and a stop() that follows a stop() changes nothing at all.
C20_StopWhenIdleIsNoop ==
    [][(Returns("stop") /\ \A i \in Members(op'.key) : ~animating[i]) =>
          /\ exc' = "none"
          /\ \A i \in Members(op'.key) :
                 ~animating'[i] /\ current_step'[i] = current_step[i]
          /\ value' = value
          /\ (\A i \in Members(op'.key) : quiesced[i]) =>
                 UNCHANGED <<animating, current_step, timer, pc, self, value,
                             animations, pop, popin, config, on_complete>>]_vars

\* stop() has been called a second time on an instance that ran to completion
\* and was stopped already
C20_Witness ==
    /\ op = [name |-> "stop", key |-> "a"]
    /\ ops >= 2
    /\ quiesced["a"]
    /\ ~animating["a"]
    /\ current_step["a"] = max_steps["a"]
    /\ timer["a"] = None
    /\ value[<<"obj", "opacity">>] # Frac(0, 1)

\* C21: stop() on a running animation (or composite) leaves the target's
\* property at the value written by the last frame (it is reset neither to
\* the start value nor to the end value), leaves current_step unchanged, and
\* does not cause on_complete (or the caller's completion callback) to be
\* invoked.
C21_StopKeepsLastFrame ==
    [][(Returns("stop") /\ \E i \in Members(op'.key) : animating[i]) =>
          /\ value' = value
          /\ cb_calls' = cb_calls
          /\ \A i \in Members(op'.key) :
                /\ current_step'[i] = current_step[i]
                /\ completions'[i] = completions[i]
                /\ ~animating'[i]
                /\ (animating[i] /\ frames[i] > 0) =>
                      value'[<<TargetOf(i), PropertyOf(i)>>]
                          = FrameValue(i, current_step[i])]_vars

\* stop() has returned on the instance in the middle of its run: the opacity
\* is the value of the frame of that step, which is neither end of the fade
C21_Witness ==
    /\ op = [name |-> "stop", key |-> "a"]
    /\ quiesced["a"]
    /\ current_step["a"] > 0
    /\ current_step["a"] < max_steps["a"]
    /\ completions["a"] = 0
    /\ value[<<"obj", "opacity">>] = FadeValue("a", current_step["a"])
    /\ ~FracEq(value[<<"obj", "opacity">>], Frac(start_value["a"], 1))
    /\ ~FracEq(value[<<"obj", "opacity">>], Frac(end_value["a"], 1))

\* C22: when the target lacks the animated attribute, every frame of
\* Fade/Slide/Scale/Blink and the initial-value writes of PopIn/PopOut.start()
\* skip the write without raising and without creating the attribute, and the
\* animation still advances to completion (all its frames run).
C22_MissingPropertySkipped ==
    /\ [][DOMAIN value' = DOMAIN value /\ exc' = "none" /\ escaped' = {}]_vars
    /\ \A i \in {"fade", "blink", "slide", "ifade", "iscale", "pfade", "pscale"} :
          (animating[i] /\ ~hasattr(TargetOf(i), PropertyOf(i)))
              ~> (Completed(i) /\ frames[i] = max_steps[i] - 1)

\* a PopInAnimation has run to completion on a target without opacity, and
\* the target still has no opacity
C22_Witness ==
    /\ ~hasattr("tooltip", "opacity")
    /\ hasattr("tooltip", "scale")
    /\ popin.fade_animation = "ifade"
    /\ Completed("ifade")
    /\ frames["ifade"] = max_steps["ifade"] - 1
    /\ Completed("iscale")

\* C23: when a PopOutAnimation completes, its internal completion runs before
\* the caller's on_complete: at the moment the caller's callback is invoked
\* the opacity equals exactly 0 and the fade child has animating = False.
C23_CallbackSeesFinalState ==
    [][cb_calls' = cb_calls + 1 =>
          /\ FracEq(value'[<<"popup", "opacity">>], Frac(0, 1))
          /\ ~animating'["pfade"]]_vars

\* C24: PopInAnimation.start() first sets the opacity to 0 and the scale to
\* the animation's configured start scale (1.1 when none is specified) and
\* only then starts both children, so when start() returns both the fade
\* child and the scale child are animating with current_step = 0.
C24_PopInStartValues ==
    [][starts' = starts + 1 =>
          /\ FracEq(value'[<<"tooltip", "opacity">>], Frac(0, 1))
          /\ FracEq(value'[<<"tooltip", "scale">>], popin.start_scale)
          /\ \A i \in Children(popin') : animating'[i] /\ current_step'[i] = 0
          /\ Children(popin') = {"ifade", "iscale"}]_vars

\* C25: every write the engine makes to a target attribute (frame writes, the
\* initial-value writes of PopIn/PopOut.start(), completion writes) is
\* followed, before the operation that made the write ends, by an invocation
\* of the redraw / on_update callback: no operation ends with a target
\* written and not redrawn.
C25_WritesRedrawn == dirty = {}

\* C26: for every easing kind get_eased_progress accepts (linear,
\* ease_in_quad, ease_out_quad, ease_in_out_quad, ease_out_bounce,
\* ease_in_elastic, ease_out_elastic) the eased value is exactly 0 at
\* progress 0 (current_step = 0) and exactly 1 at progress 1
\* (current_step >= max_steps).
C26_EasingEndpoints ==
    [][(Returns("get_eased_progress") /\ op'.key \in EasingKinds) =>
          LET i == op'.on
          IN  /\ exc' = "none"
              /\ current_step[i] = 0 => FracEq(ret', Frac(0, 1))
              /\ current_step[i] >= max_steps[i] => FracEq(ret', Frac(1, 1))]_vars

\* the bounce has been read at the end of a run: its last segment gives
\* 7.5625 * (1 - 2.625/2.75)^2 + 0.984375 = 1
C26_Witness ==
    /\ op.name = "get_eased_progress"
    /\ op.key = "ease_out_bounce"
    /\ current_step[op.on] >= max_steps[op.on]
    /\ ret = ease_out_bounce(Frac(1, 1))
    /\ ret.den > 1
    /\ FracEq(ret, Frac(1, 1))

\* C29: get_eased_progress(kind) with a kind that is not one of the seven
\* recognised names (the 'elastic_out' and 'ease_out_cubic' the editor uses)
\* returns get_progress() unchanged: it falls back to linear and never raises.
C29_UnknownEasingIsLinear ==
    [][(Returns("get_eased_progress") /\ op'.key \notin EasingKinds) =>
          LET i == op'.on
          IN  /\ exc' = "none"
              /\ FracEq(ret', get_progress(current_step[i], max_steps[i]))]_vars

\* 'elastic_out' has been read in the middle of a run and has given the
\* linear progress
C29_Witness ==
    /\ op.name = "get_eased_progress"
    /\ op.key = "elastic_out"
    /\ current_step[op.on] > 0
    /\ current_step[op.on] < max_steps[op.on]
    /\ ret = Frac(current_step[op.on], max_steps[op.on])

\* C27: an animate_search_navigation(obj) animation that runs uninterrupted
\* sets obj.highlight_intensity to 1.0 on every frame and, at completion,
\* leaves obj.scale = 1.0 and obj.highlight_intensity = 0.7; under fair
\* timers it does complete.
C27_NavigationSettles ==
    /\ [][/\ frames'["nav"] = frames["nav"] + 1 =>
                FracEq(value'[<<"result", "highlight_intensity">>], Frac(1, 1))
          /\ completions'["nav"] = completions["nav"] + 1 =>
                frames["nav"] = max_steps["nav"] - 1]_vars
    /\ [](completions["nav"] > 0 =>
             /\ FracEq(value[<<"result", "scale">>], Frac(1, 1))
             /\ FracEq(value[<<"result", "highlight_intensity">>], Frac(7, 10)))
    /\ (animating["nav"] ~> completions["nav"] = 1)

\* the navigation animation has run all its frames and has completed
C27_Witness ==
    /\ search_nav_name("result") \in DOMAIN animations
    /\ completions["nav"] = 1
    /\ frames["nav"] = max_steps["nav"] - 1
    /\ value[<<"result", "highlight_intensity">>] = Frac(7, 10)
    /\ FracEq(value[<<"result", "scale">>], Frac(1, 1))

\* C28: after animate_search_result(obj, is_current=False), whether or not an
\* animation for obj was registered before the call (for example when obj was
\* previously the current result), a one-shot fade-in runs and
\* obj.highlight_intensity eventually settles at 0.7.
C28_FadeInAlwaysRuns ==
    /\ [][(Returns("animate_search_result") /\ op'.key = "False") =>
             /\ animations'[search_result_name("other")] = "res"
             /\ animating'["res"]]_vars
    /\ [](("res" \in Registered /\ Completed("res") /\ frames["res"] > 0) =>
             FracEq(value[<<"other", "highlight_intensity">>], Frac(7, 10)))

C31_IdleTickDoesNothing ==
    [][\A s \in Slots :
          LET fires == pc[s] = "pending" /\ pc'[s] # "pending" /\ pc'[Caller] = pc[Caller]
              checks == pc[s] = "sched_check" /\ pc'[s] # "sched_check"
          IN  ((fires \/ checks) /\ ~animating[self[s]]) =>
                 /\ pc'[s] = "free"
                 /\ \A x \in Threads \ {s} : pc'[x] = pc[x]
                 /\ UNCHANGED <<animating, current_step, value, dirty, frames,
                                completions, cb_calls, tmp>>]_vars

\* stop() has set animating to False and has not yet cancelled the timer, which
\* has fired in between and has ended without advancing: no chain is left
C31_Witness ==
    /\ starts = 1
    /\ pc[Caller] \in {"stop_29", "stop_30"}
    /\ self[Caller] = "a"
    /\ ~animating["a"]
    /\ LiveChains("a") = {}
    /\ current_step["a"] > 0
    /\ current_step["a"] < max_steps["a"]
    /\ frames["a"] = current_step["a"]


\* C32: after animate_cursor_blink(cursor) the animation repeats until it is
\* stopped: a cursor blink that has been started and has not been stopped is
\* animating, it never completes on its own.
C32_CursorBlinkRepeats ==
    (timer["cblink"] # None /\ ~quiesced["cblink"]) =>
        (animating["cblink"] /\ completions["cblink"] = 0)


\* C33: a pop-in started through its wrapper and left to run ends with the
\* wrapper's on_complete having run: the target has opacity 1.0 and scale 1.0
\* and its animating flag is False again.
C33_WrappedPopInCompletes ==
    (value[TooltipFlag].num = value[TooltipFlag].den) ~>
        (/\ value[TooltipFlag].num = 0
         /\ value[<<"tooltip", "opacity">>].num = value[<<"tooltip", "opacity">>].den
         /\ value[<<"tooltip", "scale">>].num = value[<<"tooltip", "scale">>].den)


\* C34: when MicroAnimations.stop_animation(obj) returns, the animation
\* registered under a recipe key of obj is not animating and has no pending
\* timer, and the animations of every other target are as they were.
C34_StopAnimationStopsAll ==
    [][\A o \in ToggleTargets :
          LET i == ToggleInst(o)
          IN  (quiesced'[i] /\ ~quiesced[i]) =>
                 /\ ~animating'[i]
                 /\ {s \in Slots : pc'[s] = "pending" /\ self'[s] = i} = {}
                 /\ \A j \in Inst \ {i} :
                       /\ animating'[j] = animating[j]
                       /\ timer'[j] = timer[j]
                       /\ PendingTimers(j) = {s \in Slots : pc'[s] = "pending" /\ self'[s] = j}]_vars


\* C35: a rebuilding recipe called while the previous animation of the target
\* is running stops the previous instance before it registers and starts the
\* new one, so that afterwards only the new instance, the registered one,
\* writes the target.
C35_OnlyRegisteredWrites ==
    [][\A s \in Slots :
          (/\ FrameStep(s, self[s])
           /\ TargetOf(self[s]) = "other"
           /\ search_result_name("other") \in DOMAIN animations)
              => self[s] = animations[search_result_name("other")]]_vars


\* C36: every call animate_toggle(obj, state) leaves the target's animation
\* running in the direction of state: from 0.0 to 1.0 when state is True, from
\* 1.0 to 0.0 when it is False.
C36_ToggleFollowsState ==
    [][\A o \in ToggleTargets : \A state \in BOOLEAN :
          AnimateToggle(o, state) =>
              LET i == animations'[toggle_name(o)]
              IN  /\ animating'[i]
                  /\ start_value'[i] = (IF state THEN 0 ELSE 1)
                  /\ end_value'[i] = (IF state THEN 1 ELSE 0)]_vars


\* C37: an instance with animating = True has a pending timer or a tick being
\* executed (or its start() is still running): an instance whose run has ended
\* has animating = False.
C37_AnimatingHasTimer ==
    \A i \in Inst :
        animating[i] =>
            \/ PendingTimers(i) # {}
            \/ Ticking(i) # {}
            \/ (self[Caller] = i /\ pc[Caller] # "idle")


\* C38: in every reachable state 0 <= current_step <= max_steps holds for
\* every instance, whatever the interleaving of start(), stop() and the timer
\* callbacks.
C38_StepWithinBounds ==
    \A i \in Inst : 0 <= current_step[i] /\ current_step[i] <= max_steps[i]


\* the instance i is running: animating, with a timer pending
Running(i) == animating[i] /\ PendingTimers(i) # {}

\* C39: at any time at most one running animation writes a given property of
\* a given target.
C39_OneWriterPerProperty ==
    \A i, j \in {"ptog", "fin", "fout"} :
        (i # j /\ Running(i) /\ Running(j)) =>
            <<TargetOf(i), PropertyOf(i)>> # <<TargetOf(j), PropertyOf(j)>>

\* C40: the fade-out of the search panel acts only while the search UI is
\* hidden: once the UI has been toggled on again, a tick of the fade-out
\* neither writes search_panel_opacity nor clears the search state.
C40_FadeOutOnlyWhileHidden ==
    [][(/\ current_step'["fout"] = current_step["fout"] + 1
        /\ value[ShowSearchUI].num = 1)
          => \A x \in SearchState \cup {PanelOpacity} : value'[x] = value[x]]_vars

====
